---- MODULE Spec2Model ----
(***************************************************************************)
(* Model of the hcp-asl pipeline: the staged fabber driver (do_basil in    *)
(* hcpasl/analysis_on_surface.py) and the json ledger of important file    *)
(* names (load_json / update_json in hcpasl/m0_mt_correction.py) with the  *)
(* stages that write to it.                                                *)
(***************************************************************************)
EXTENDS Integers, Sequences, FiniteSets, TLC

(***************************************************************************)
(* Bounds of the model.                                                    *)
(***************************************************************************)
\* perfusion values written by the estimator range over -MaxFtiss..MaxFtiss
MaxFtiss == 1
\* update_json calls in one behaviour of the ledger
MaxPuts == 2
\* update_json calls in one behaviour of the stages run one after the other
MaxStagePuts == 3
\* runs of the functions with guarded steps in one behaviour
MaxRuns == 2
\* volumes of the series that apply_to_image resamples
MaxVols == 3
\* the largest worker count (--cores) a call is made with
MaxCores == 2
\* the largest shift of a registration matrix
MaxShift == 2
\* the largest number of inversion times, and of repeats at one of them,
\* that average_tis is tried with besides REPEATS
MaxTIs == 3
MaxRepeat == 3

(***************************************************************************)
(* Program constants.                                                      *)
(***************************************************************************)
\* for iteration in range(5)
NumIterations == 5
REPEATS == <<6, 6, 6, 10, 15>>
SIDES == {"L", "R"}

\* the surface vertices a mean_ftiss.func.gii file carries a value for
Vertices == {"v1", "v2"}

None == "None"

VARIABLES
    \* ---- do_basil ----
    out_dir,        \* the out_dir argument of do_basil
    pc,             \* position of do_basil: "fabber", "wb_command", "done", "failed"
    iteration,      \* the loop variable of do_basil
    fabber_calls,   \* every fabber_asl invocation so far: its options and exit status
    wb_calls,       \* every wb_command -metric-math invocation so far
    ftiss,          \* contents of each fabber_<i>/mean_ftiss.func.gii that exists
    ftiss_raw,      \* what the latest estimator run wrote to its mean_ftiss file (history)
    mvn,            \* whether fabber_<i>/finalMVN.nii.gz exists
    \* ---- the json ledger ----
    files,          \* the json files on disk: path -> text, for the paths that exist
    st,             \* per process: "idle", "loaded" (holds a json_dict), "error" (raised)
    subject_dir,    \* per process: the directory it passed to load_json
    json_dict,      \* per process: the dictionary it holds in memory
    last_put,       \* the arguments of the latest update_json call (history)
    writer,         \* per path: the process whose update_json wrote it last (history)
    put_keys,       \* per process: the keys it has put since its load_json (history)
    ever_put,       \* per path: every key ever put there, with its latest value (history)
    \* ---- the stages that write to the ledger ----
    stage,          \* per process: the stage function it runs, its banding flag, its position
    \* ---- process_subject ----
    pl_dir,         \* the subject_dir argument of process_subject
    gradients,      \* whether a gradient coefficients file was given
    pl_next,        \* index in PipelineStages of the next stage to call
    pl_status,      \* "running", "done" (returned) or "failed" (an exception left it)
    calls,          \* every stage call so far, with its result (history)
    disk,           \* the image files on disk: path -> index of the call that wrote it
    \* ---- the guarded steps of pv_est, hcp_asl_distcorr and surface_analysis ----
    gs_fn,          \* the function that runs, or None between two runs
    gs_target,      \* its --target argument ('asl', 'structural'; None when it has none)
    gs_use_t1,      \* its --use_t1 flag
    gs_nobandingcorr, \* its --nobandingcorr flag
    gs_pos,         \* index of its next step
    gs_state,       \* "idle", "running", "returned", "failed"
    gs_runs,        \* number of runs started so far
    gs_disk,        \* the outputs on disk: path -> number of times it was written
    gs_last,        \* the latest step taken: what it found and what it did (history)
    \* ---- generate_asl2struct ----
    reg_pc,         \* position: "idle", "bbregister", "from_flirt", "except", "restore", "done", "failed"
    reg_cwd,        \* the working directory of the process
    reg_env,        \* the value of SUBJECTS_DIR in os.environ, None when unset
    reg_pwd,        \* the local pwd
    reg_old_sd,     \* the local old_sd
    reg_omat,       \* contents of <reg_dir>/asl2struct.mat, << >> while it does not exist
    reg_written,    \* the matrix as bbregister wrote it (history)
    reg_status,     \* exit status of bbregister (history)
    reg_attempts,   \* number of from_flirt calls on the tool's matrix so far (history)
    reg_rounded,    \* number of times the matrix file was rounded (history)
    \* ---- apply_to_image on the motion corrected series ----
    rs_pc,          \* position: "idle", "resampling", "returned", "failed"
    rs_in,          \* the transforms read from disk and the --cores argument
    rs_task,        \* timepoint -> the worker that took it, for the timepoints taken
    rs_result,      \* timepoint -> its resampled volume, for the timepoints completed
    rs_failed,      \* the timepoints whose resampling raised
    rs_order,       \* the timepoints in the order their resampling completed (history)
    rs_log,         \* which worker took which timepoint, and wrote which result (history)
    rs_out,         \* what the call returned
    rs_saved,       \* contents of tis_distcorr.nii.gz, << >> while it does not exist
    \* ---- chains of two transforms ----
    ch_pc,          \* "idle", the name of the chain that was built, or "inverted"
    ch_A,           \* the first argument of rt.chain
    ch_B,           \* the second argument of rt.chain
    ch_AB,          \* what rt.chain returned
    ch_inv,         \* what the inverse() of the chain returned
    \* ---- average_tis ----
    av_pc,          \* "idle" or "saved"
    av_rpts,        \* the rpts argument
    av_data,        \* func_data: per vertex, the value of each column
    av_slices,      \* the pairs (x, y) that zip(cum_rpts-rpts, cum_rpts) gives
    av_mean,        \* mean_func, as written to oname
    \* ---- the projection loop of project_to_surface ----
    ps_pc,          \* "idle", "loop" or "returned"
    ps_in,          \* the target argument and the 'oxford_asl' entry of the ledger
    ps_k,           \* index in product(names, sides) of the next pair
    ps_runs         \* the wb_command runs so far: volume, side, savename, status

basil_vars == <<out_dir, pc, iteration, fabber_calls, wb_calls, ftiss, ftiss_raw, mvn>>

ledger_vars == <<files, st, subject_dir, json_dict, last_put, writer, put_keys, ever_put>>

pipeline_vars == <<pl_dir, gradients, pl_next, pl_status, calls, disk>>

\* the variables of the parts that follow the fit driver and the ledger
guard_vars == <<gs_fn, gs_target, gs_use_t1, gs_nobandingcorr, gs_pos, gs_state,
                gs_runs, gs_disk, gs_last>>

reg_vars == <<reg_pc, reg_cwd, reg_env, reg_pwd, reg_old_sd, reg_omat, reg_written,
              reg_status, reg_attempts, reg_rounded>>

rs_vars == <<rs_pc, rs_in, rs_task, rs_result, rs_failed, rs_order, rs_log, rs_out,
             rs_saved>>

ch_vars == <<ch_pc, ch_A, ch_B, ch_AB, ch_inv>>

av_vars == <<av_pc, av_rpts, av_data, av_slices, av_mean>>

ps_vars == <<ps_pc, ps_in, ps_k, ps_runs>>

pure_vars == <<ch_vars, av_vars, ps_vars>>

transform_vars == <<reg_vars, rs_vars, pure_vars>>

later_vars == <<pipeline_vars, guard_vars, transform_vars>>

Iterations == 0 .. (NumIterations - 1)
FtissData == [Vertices -> (0 - MaxFtiss) .. MaxFtiss]

(***************************************************************************)
(* do_basil: the options of one iteration (lines 105-132).                 *)
(***************************************************************************)
\* temp_out = out_dir / f'fabber_{iteration}'
temp_out(dir, i) == [parent |-> dir, name |-> "fabber", index |-> i]

\* data: the mean image for iterations 0 and 1, else the full series
data(i) == IF i = 0 \/ i = 1 THEN "mean_name" ELSE "perf_name"

\* --inferart is appended for iterations 1 and 3
inferart(i) == i = 1 \/ i = 3

\* the warm start taken from the iteration's own output directory
mutant_continue_from_mvn(dir, i) ==
    IF i # 0
    THEN << [dir |-> temp_out(temp_out(dir, i).parent, i), file |-> "finalMVN.nii.gz"] >>
    ELSE << >>

\* --continue-from-mvn=<temp_out.parent>/fabber_{iteration - 1}/finalMVN.nii.gz
continue_from_mvn(dir, i) ==
    IF i # 0
    THEN << [dir |-> temp_out(temp_out(dir, i).parent, i - 1), file |-> "finalMVN.nii.gz"] >>
    ELSE << >>

\* the repeat counts given at every iteration
mutant_rpts(i) == REPEATS

\* --rpt1 .. --rpt5 from iteration 2 on
rpts(i) == IF i >= 2 THEN REPEATS ELSE << >>

\* the spatial prior never switched on
mutant_method(i) == "vb"

\* --method
method(i) == IF i < 4 THEN "vb" ELSE "spatialvb"

it_command(dir, i) ==
    [ iteration |-> i,
      data      |-> data(i),
      inferart  |-> inferart(i),
      output    |-> temp_out(dir, i),
      mvn       |-> continue_from_mvn(dir, i),
      rpts      |-> rpts(i),
      method    |-> method(i) ]

\* a thresholding that leaves the data as it is
mutant_MetricMathMax0(d) == d

\* wb_command -metric-math "max(x, 0)" <ftiss> -var x <ftiss>
MetricMathMax0(d) == [v \in DOMAIN d |-> IF d[v] > 0 THEN d[v] ELSE 0]

\* ftiss_name = temp_out / 'mean_ftiss.func.gii'
ftiss_name(dir, i) == [dir |-> temp_out(dir, i), file |-> "mean_ftiss.func.gii"]

\* do_basil is entered with one of the out_dir values surface_analysis gives it
BasilStart(sides) ==
    /\ out_dir \in {s \o "_basil" : s \in sides}
    /\ pc = "fabber"
    /\ iteration = 0
    /\ fabber_calls = << >>
    /\ wb_calls = << >>
    /\ ftiss = [i \in {} |-> None]
    /\ ftiss_raw = [i \in {} |-> None]
    /\ mvn = [i \in Iterations |-> FALSE]

\* subprocess.run(it_command, check=True): the estimator exits with status 0
\* after writing its outputs into temp_out
FabberOk ==
    /\ pc = "fabber"
    /\ \E d \in FtissData :
          /\ ftiss' = (iteration :> d) @@ ftiss
          /\ ftiss_raw' = (iteration :> d)
    /\ mvn' = [mvn EXCEPT ![iteration] = TRUE]
    /\ fabber_calls' = Append(fabber_calls,
                              [cmd |-> it_command(out_dir, iteration), status |-> 0])
    /\ pc' = "wb_command"
    /\ UNCHANGED <<out_dir, iteration, wb_calls>>

\* the estimator's status ignored (no check=True): the driver carries on
mutant_FabberFail ==
    /\ pc = "fabber"
    /\ fabber_calls' = Append(fabber_calls,
                              [cmd |-> it_command(out_dir, iteration), status |-> 1])
    /\ pc' = "wb_command"
    /\ UNCHANGED <<out_dir, iteration, wb_calls, ftiss, ftiss_raw, mvn>>

\* subprocess.run(it_command, check=True): a non-zero status raises
\* CalledProcessError, which nothing in do_basil catches
FabberFail ==
    /\ pc = "fabber"
    /\ fabber_calls' = Append(fabber_calls,
                              [cmd |-> it_command(out_dir, iteration), status |-> 1])
    /\ pc' = "failed"
    /\ UNCHANGED <<out_dir, iteration, wb_calls, ftiss, ftiss_raw, mvn>>

\* what is left of a mean_ftiss.func.gii file whose writer did not finish
Truncated == [v \in {} |-> 0]

\* subprocess.run(it_command, check=True): the estimator fails, or is killed by
\* the host, after it has begun to write into temp_out (--output={temp_out}
\* --overwrite: it writes in place); the non-zero status raises
FabberKilled ==
    /\ pc = "fabber"
    /\ ftiss' = (iteration :> Truncated) @@ ftiss
    /\ fabber_calls' = Append(fabber_calls,
                              [cmd |-> it_command(out_dir, iteration), status |-> 1])
    /\ pc' = "failed"
    /\ UNCHANGED <<out_dir, iteration, wb_calls, ftiss_raw, mvn>>

\* subprocess.run(cmd, check=True) of the thresholding command, status 0;
\* the loop then moves to the next iteration or ends
ThresholdOk ==
    /\ pc = "wb_command"
    /\ iteration \in DOMAIN ftiss
    /\ ftiss' = [ftiss EXCEPT ![iteration] = MetricMathMax0(ftiss[iteration])]
    /\ wb_calls' = Append(wb_calls,
                          [iteration |-> iteration,
                           input  |-> ftiss_name(out_dir, iteration),
                           output |-> ftiss_name(out_dir, iteration),
                           status |-> 0])
    /\ iteration' = iteration + 1
    /\ pc' = IF iteration + 1 < NumIterations THEN "fabber" ELSE "done"
    /\ UNCHANGED <<out_dir, fabber_calls, ftiss_raw, mvn>>

\* the thresholding command exits non-zero: CalledProcessError
ThresholdFail ==
    /\ pc = "wb_command"
    /\ wb_calls' = Append(wb_calls,
                          [iteration |-> iteration,
                           input  |-> ftiss_name(out_dir, iteration),
                           output |-> ftiss_name(out_dir, iteration),
                           status |-> 1])
    /\ pc' = "failed"
    /\ UNCHANGED <<out_dir, iteration, fabber_calls, ftiss, ftiss_raw, mvn>>

(***************************************************************************)
(* The json ledger: load_json and update_json of m0_mt_correction.py.      *)
(***************************************************************************)
\* processes (stage invocations) and the directories they are given
Procs == {"p1", "p2"}
Dirs == {"/data/subA", "/data/subB"}

\* keys of the ledger in the order json.dump(sort_keys=True) writes them
SortedKeys == << "calib0_bias", "calib0_corr", "calib0_img", "calib1_bias",
                 "calib1_corr", "calib1_img", "json_name", "oxford_asl",
                 "structasl" >>

EmptyDict == [k \in {} |-> None]

\* json_name = subject_dir / 'ASL/ASL.json'
ASL_json(d) == d \o "/ASL/ASL.json"

\* json.dump(old_dict, fp, sort_keys=True, indent=4): the text of the file, one
\* "key": "value" line per entry, in key order
json_dump(dict) ==
    LET present == SelectSeq(SortedKeys, LAMBDA k : k \in DOMAIN dict)
    IN [n \in 1 .. Len(present) |-> <<present[n], dict[present[n]]>>]

\* json.load(infile): the dictionary a text denotes
json_load(text) ==
    [k \in {text[n][1] : n \in 1 .. Len(text)} |->
        text[CHOOSE n \in 1 .. Len(text) :
                /\ text[n][1] = k
                /\ \A m \in 1 .. Len(text) : text[m][1] = k => m <= n][2]]

\* an update in which entries already present win
mutant_dict_update(old_dict, new_dict) == old_dict @@ new_dict

\* old_dict.update(new_dict)
dict_update(old_dict, new_dict) == new_dict @@ old_dict

\* the two calibration images of a subject and where they lie
CalibNumbers == {"0", "1"}
calib_img(d, c) == d \o "/ASL/Calib/Calib" \o c \o "/calib" \o c \o ".nii.gz"

\* the ledger initial_processing writes for a subject directory: it records its
\* own location and the inputs the later stages look up
FreshLedger(d) ==
    [ json_name  |-> ASL_json(d),
      structasl  |-> d \o "/T1w/ASL",
      calib0_img |-> calib_img(d, "0"),
      calib1_img |-> calib_img(d, "1") ]

\* initial_processing(subject_dir): creates the ledger, once per subject
initial_processing(d) ==
    /\ ASL_json(d) \notin DOMAIN files
    /\ files' = (ASL_json(d) :> json_dump(FreshLedger(d))) @@ files
    /\ UNCHANGED <<st, subject_dir, json_dict, last_put, writer, put_keys, ever_put>>

\* a load that hands out an empty dictionary when the file is missing
mutant_load_json(p, d) ==
    /\ st[p] = "idle"
    /\ subject_dir' = [subject_dir EXCEPT ![p] = d]
    /\ put_keys' = [put_keys EXCEPT ![p] = {}]
    /\ st' = [st EXCEPT ![p] = "loaded"]
    /\ json_dict' = [json_dict EXCEPT ![p] =
                        IF ASL_json(d) \in DOMAIN files
                        THEN json_load(files[ASL_json(d)]) ELSE EmptyDict]
    /\ UNCHANGED <<files, last_put, writer, ever_put>>

\* load_json(subject_dir): the dictionary of the file, or an exception when the
\* file does not exist
load_json(p, d) ==
    /\ st[p] = "idle"
    /\ subject_dir' = [subject_dir EXCEPT ![p] = d]
    /\ put_keys' = [put_keys EXCEPT ![p] = {}]
    /\ IF ASL_json(d) \in DOMAIN files
       THEN /\ json_dict' = [json_dict EXCEPT ![p] = json_load(files[ASL_json(d)])]
            /\ st' = [st EXCEPT ![p] = "loaded"]
       ELSE /\ json_dict' = [json_dict EXCEPT ![p] = EmptyDict]
            /\ st' = [st EXCEPT ![p] = "error"]
    /\ UNCHANGED <<files, last_put, writer, ever_put>>

\* the history a call update_json(new_dict, json_dict[p]) leaves
PutHistory(p, new_dict, path) ==
    /\ last_put' = [seq |-> last_put.seq + 1, proc |-> p,
                    old_dict |-> json_dict[p], new_dict |-> new_dict]
    /\ writer' = (path :> p) @@ writer
    /\ put_keys' = [put_keys EXCEPT ![p] = @ \cup DOMAIN new_dict]
    /\ ever_put' = (path :> (new_dict @@ (IF path \in DOMAIN ever_put
                                            THEN ever_put[path] ELSE EmptyDict)))
                   @@ ever_put

\* an update that saves the new entries only
mutant_update_json(p, new_dict) ==
    /\ st[p] = "loaded"
    /\ LET merged == dict_update(json_dict[p], new_dict) IN
       /\ json_dict' = [json_dict EXCEPT ![p] = merged]
       /\ files' = (merged["json_name"] :> json_dump(new_dict)) @@ files
       /\ PutHistory(p, new_dict, merged["json_name"])
    /\ UNCHANGED <<st, subject_dir>>

\* an update that reads the file again and lays its dictionary over what it finds
mutant_update_json_reread(p, new_dict) ==
    /\ st[p] = "loaded"
    /\ LET merged == dict_update(json_dict[p], new_dict)
           path   == merged["json_name"]
           found  == IF path \in DOMAIN files THEN json_load(files[path]) ELSE EmptyDict
       IN
       /\ json_dict' = [json_dict EXCEPT ![p] = merged]
       /\ files' = (path :> json_dump(dict_update(found, merged))) @@ files
       /\ PutHistory(p, new_dict, path)
    /\ UNCHANGED <<st, subject_dir>>

\* update_json(new_dict, old_dict): old_dict.update(new_dict), then the whole of
\* old_dict is dumped to the file old_dict['json_name'] names
update_json(p, new_dict) ==
    /\ st[p] = "loaded"
    /\ LET merged == dict_update(json_dict[p], new_dict) IN
       /\ json_dict' = [json_dict EXCEPT ![p] = merged]
       /\ files' = (merged["json_name"] :> json_dump(merged)) @@ files
       /\ PutHistory(p, new_dict, merged["json_name"])
    /\ UNCHANGED <<st, subject_dir>>

\* the process of a stage ends (it returned, or its exception ended it)
Exit(p) ==
    /\ st[p] \in {"loaded", "error"}
    /\ st' = [st EXCEPT ![p] = "idle"]
    /\ json_dict' = [json_dict EXCEPT ![p] = EmptyDict]
    /\ subject_dir' = [subject_dir EXCEPT ![p] = None]
    /\ put_keys' = [put_keys EXCEPT ![p] = {}]
    /\ UNCHANGED <<files, last_put, writer, ever_put>>

\* no stage function running in the process
NoStage == [fn |-> None, nobc |-> FALSE, step |-> None, calib |-> None, status |-> 0]

\* the entries a caller may put: artifact keys with the path of the artifact
PutKeys == {"oxford_asl", "calib0_bias"}
PutValues == {"/out/a", "/out/b"}
NewDicts == UNION {[S -> PutValues] : S \in SUBSET PutKeys}

LedgerStart ==
    /\ files = [f \in {} |-> << >>]
    /\ st = [p \in Procs |-> "idle"]
    /\ subject_dir = [p \in Procs |-> None]
    /\ json_dict = [p \in Procs |-> EmptyDict]
    /\ last_put = [seq |-> 0, proc |-> None, old_dict |-> EmptyDict, new_dict |-> EmptyDict]
    /\ writer = [f \in {} |-> None]
    /\ put_keys = [p \in Procs |-> {}]
    /\ ever_put = [f \in {} |-> EmptyDict]
    /\ stage = [p \in Procs |-> NoStage]

\* process_subject is entered for a subject with nothing computed yet
PipelineStart(dirs, grads) ==
    /\ pl_dir \in dirs
    /\ gradients \in grads
    /\ pl_next = 1
    /\ pl_status = "running"
    /\ calls = << >>
    /\ disk = [f \in {} |-> {}]

\* no step taken yet
NoStep == [run |-> 0, out |-> None, guarded |-> FALSE, existed |-> FALSE,
           recomputed |-> FALSE, before |-> 0]

\* none of the three functions has run yet: no output is on disk
GuardedStart ==
    /\ gs_fn = None
    /\ gs_target = None
    /\ gs_use_t1 = FALSE
    /\ gs_nobandingcorr = FALSE
    /\ gs_pos = 1
    /\ gs_state = "idle"
    /\ gs_runs = 0
    /\ gs_disk = [f \in {} |-> 0]
    /\ gs_last = NoStep

\* generate_asl2struct is about to be called; SUBJECTS_DIR may or may not be set
Asl2structStart(envs) ==
    /\ reg_pc = "idle"
    /\ reg_cwd = "/home"
    /\ reg_env \in envs
    /\ reg_pwd = None
    /\ reg_old_sd = None
    /\ reg_omat = << >>
    /\ reg_written = << >>
    /\ reg_status = 0
    /\ reg_attempts = 0
    /\ reg_rounded = 0

NoInputs == [asl2calib_mc |-> << >>, gdc |-> << >>, dc_warp |-> << >>,
             asl2struct_reg |-> << >>, cores |-> 0]
NoSeries == [returned |-> FALSE, series |-> << >>]

\* the corrected series is not yet computed
ResampleStart ==
    /\ rs_pc = "idle"
    /\ rs_in = NoInputs
    /\ rs_task = << >>
    /\ rs_result = << >>
    /\ rs_failed = {}
    /\ rs_order = << >>
    /\ rs_log = {}
    /\ rs_out = NoSeries
    /\ rs_saved = << >>

\* no chain built yet
ChainStart ==
    /\ ch_pc = "idle"
    /\ ch_A = [a |-> 1, b |-> 0]
    /\ ch_B = [a |-> 1, b |-> 0]
    /\ ch_AB = [a |-> 1, b |-> 0]
    /\ ch_inv = [a |-> 1, b |-> 0]

\* average_tis not yet called
AverageStart ==
    /\ av_pc = "idle"
    /\ av_rpts = << >>
    /\ av_data = << >>
    /\ av_slices = << >>
    /\ av_mean = << >>

\* project_to_surface not yet called
ProjectStart ==
    /\ ps_pc = "idle"
    /\ ps_in = [target |-> None, oxford_asl |-> None]
    /\ ps_k = 1
    /\ ps_runs = << >>

PureStart == ChainStart /\ AverageStart /\ ProjectStart

TransformStart(envs) == Asl2structStart(envs) /\ ResampleStart /\ PureStart

vars == <<basil_vars, ledger_vars, stage, later_vars>>
other_vars == <<basil_vars, stage, later_vars>>

InitBasil == BasilStart(SIDES) /\ LedgerStart /\ PipelineStart({"/data/subA"}, {FALSE}) /\ GuardedStart /\ TransformStart({None})

\* do_basil not yet run, for the behaviours of the ledger alone
InitLedger == BasilStart({"L"}) /\ LedgerStart /\ PipelineStart({"/data/subA"}, {FALSE}) /\ GuardedStart /\ TransformStart({None})

NextBasil ==
    \/ FabberOk /\ UNCHANGED <<ledger_vars, stage, later_vars>>
    \/ FabberFail /\ UNCHANGED <<ledger_vars, stage, later_vars>>
    \/ FabberKilled /\ UNCHANGED <<ledger_vars, stage, later_vars>>
    \/ ThresholdOk /\ UNCHANGED <<ledger_vars, stage, later_vars>>
    \/ ThresholdFail /\ UNCHANGED <<ledger_vars, stage, later_vars>>

SpecBasil == InitBasil /\ [][NextBasil]_vars

\* stages running as concurrent processes on the ledgers
NextLedger ==
    \/ \E d \in Dirs : initial_processing(d) /\ UNCHANGED other_vars
    \/ \E p \in Procs, d \in Dirs : load_json(p, d) /\ UNCHANGED other_vars
    \/ \E p \in Procs, n \in NewDicts :
          last_put.seq < MaxPuts /\ update_json(p, n) /\ UNCHANGED other_vars
    \/ \E p \in Procs : Exit(p) /\ UNCHANGED other_vars

SpecLedger == InitLedger /\ [][NextLedger]_vars

\* stages running one after the other: a process starts only when no other runs
NextLedgerSeq ==
    \/ \E d \in Dirs : initial_processing(d) /\ UNCHANGED other_vars
    \/ \E p \in Procs, d \in Dirs :
          /\ \A q \in Procs : st[q] = "idle"
          /\ load_json(p, d) /\ UNCHANGED other_vars
    \/ \E p \in Procs, n \in NewDicts :
          last_put.seq < MaxPuts /\ update_json(p, n) /\ UNCHANGED other_vars
    \/ \E p \in Procs : Exit(p) /\ UNCHANGED other_vars

SpecLedgerSeq == InitLedger /\ [][NextLedgerSeq]_vars

(***************************************************************************)
(* The stages that write to the ledger: run_oxford_asl (asl_perfusion.py)  *)
(* and the loop over the calibration images of correct_M0.                 *)
(***************************************************************************)
\* ext = "_nobc" if nobc else None, as the f-string f'TIs{ext}/...' prints it
ext(nobc) == IF nobc THEN "_nobc" ELSE "None"

\* oxford_dir = structasl_dir / f'TIs{ext}/OxfordASL'
oxford_dir(structasl_dir, nobc) == structasl_dir \o "/TIs" \o ext(nobc) \o "/OxfordASL"

\* the directories of pvgm_name / pvwm_name, brain_mask and calib_name
oxford_input_dirs(structasl_dir, nobc) ==
    [PVEs |-> structasl_dir \o "/PVEs" \o ext(nobc),
     reg |-> structasl_dir \o "/reg" \o ext(nobc),
     DistCorr |-> structasl_dir \o "/Calib/Calib0/DistCorr" \o ext(nobc)]

\* the entry filed under a key that is already taken
mutant_oxford_important_names(dict, nobc) ==
    "structasl" :> oxford_dir(dict["structasl"], nobc)

\* important_names = {"oxford_asl": str(oxford_dir)}
oxford_important_names(dict, nobc) ==
    "oxford_asl" :> oxford_dir(dict["structasl"], nobc)

\* Path(calib_name): the directory and the number of a calibration image
calib_path(calib_name) ==
    CHOOSE x \in [dir : Dirs, c : CalibNumbers] : calib_img(x.dir, x.c) = calib_name
\* calib_dir = calib_path.parent
calib_dir(calib_name) ==
    calib_path(calib_name).dir \o "/ASL/Calib/Calib" \o calib_path(calib_name).c
\* calib_name_stem = calib_path.stem.split('.')[0]
calib_name_stem(calib_name) == "calib" \o calib_path(calib_name).c

\* dilall_name = biascorr_dir/f"{calib_name_stem}_bias.nii.gz"
dilall_name(calib_name) ==
    calib_dir(calib_name) \o "/BiasCorr/" \o calib_name_stem(calib_name) \o "_bias.nii.gz"

\* calib_corr_name: mtcorr_name with banding correction, biascorr_name without
calib_corr_name(calib_name, nobandingcorr) ==
    IF ~nobandingcorr
    THEN calib_dir(calib_name) \o "/MTCorr/" \o calib_name_stem(calib_name) \o "_mtcorr.nii.gz"
    ELSE calib_dir(calib_name) \o "/BiasCorr/" \o calib_name_stem(calib_name) \o "_restore.nii.gz"

\* important_names of correct_M0 for one calibration image
calib_important_names(calib_name, nobandingcorr) ==
    ((calib_name_stem(calib_name) \o "_bias") :> dilall_name(calib_name))
    @@ ((calib_name_stem(calib_name) \o "_corr") :> calib_corr_name(calib_name, nobandingcorr))

\* run_oxford_asl(subject_dir, nobc) starts: load_json(subject_dir)
StartOxfordAsl(p, d, b) ==
    /\ load_json(p, d)
    /\ stage' = [stage EXCEPT ![p] =
                    [fn |-> "run_oxford_asl", nobc |-> b, step |-> "oxford_asl",
                     calib |-> None, status |-> 0]]

\* subprocess.run(" ".join(cmd), shell=True): whatever status oxford_asl
\* returns, the function goes on
OxfordAslRun(p) ==
    /\ st[p] = "loaded"
    /\ stage[p].fn = "run_oxford_asl"
    /\ stage[p].step = "oxford_asl"
    /\ \E status \in {0, 1} :
          stage' = [stage EXCEPT ![p].step = "update_json", ![p].status = status]
    /\ UNCHANGED ledger_vars

\* update_json(important_names, json_dict), the last statement of run_oxford_asl
OxfordAslPut(p) ==
    /\ st[p] = "loaded"
    /\ stage[p].fn = "run_oxford_asl"
    /\ stage[p].step = "update_json"
    /\ update_json(p, oxford_important_names(json_dict[p], stage[p].nobc))
    /\ stage' = [stage EXCEPT ![p].step = "returned"]

\* correct_M0(subject_dir, ..., nobandingcorr) starts: load_json, then the
\* loop over calib0 and calib1
StartCorrectM0(p, d, b) ==
    /\ load_json(p, d)
    /\ stage' = [stage EXCEPT ![p] =
                    [fn |-> "correct_M0", nobc |-> b, step |-> "get_sebased_bias",
                     calib |-> "0", status |-> 0]]

\* subprocess.run(sebased_cmd, check=True) and subprocess.run(dilall_cmd,
\* check=True): a non-zero status raises CalledProcessError
CalibCommand(p) ==
    /\ st[p] = "loaded"
    /\ stage[p].fn = "correct_M0"
    /\ stage[p].step \in {"get_sebased_bias", "fslmaths"}
    /\ \E status \in {0, 1} :
          IF status = 0
          THEN /\ stage' = [stage EXCEPT ![p].step =
                               IF @ = "get_sebased_bias" THEN "fslmaths" ELSE "update_json"]
               /\ UNCHANGED st
          ELSE /\ stage' = [stage EXCEPT ![p].status = status]
               /\ st' = [st EXCEPT ![p] = "error"]
    /\ UNCHANGED <<files, subject_dir, json_dict, last_put, writer, put_keys, ever_put>>

\* update_json(important_names, json_dict) at the end of one pass of the loop
CalibPut(p) ==
    /\ st[p] = "loaded"
    /\ stage[p].fn = "correct_M0"
    /\ stage[p].step = "update_json"
    /\ update_json(p, calib_important_names(
                          json_dict[p]["calib" \o stage[p].calib \o "_img"], stage[p].nobc))
    /\ stage' = [stage EXCEPT ![p].step = IF stage[p].calib = "0"
                                          THEN "get_sebased_bias" ELSE "returned",
                              ![p].calib = "1"]

\* the process of a stage function ends
ExitStage(p) ==
    /\ Exit(p)
    /\ stage' = [stage EXCEPT ![p] = NoStage]

\* the stage functions run one after the other, each in a process of its own
\* one stage function runs at a time: the process slot is taken again only
\* after the process before it has ended
StageProcs == {"p1"}

NextStages ==
    \/ \E d \in Dirs : initial_processing(d) /\ UNCHANGED other_vars
    \/ \E p \in StageProcs, d \in Dirs, b \in BOOLEAN :
          /\ StartOxfordAsl(p, d, b) /\ UNCHANGED <<basil_vars, later_vars>>
    \/ \E p \in StageProcs, d \in Dirs, b \in BOOLEAN :
          /\ StartCorrectM0(p, d, b) /\ UNCHANGED <<basil_vars, later_vars>>
    \/ \E p \in StageProcs : OxfordAslRun(p) /\ UNCHANGED <<basil_vars, later_vars>>
    \/ \E p \in StageProcs :
          last_put.seq < MaxStagePuts /\ OxfordAslPut(p) /\ UNCHANGED <<basil_vars, later_vars>>
    \/ \E p \in StageProcs : CalibCommand(p) /\ UNCHANGED <<basil_vars, later_vars>>
    \/ \E p \in StageProcs :
          last_put.seq < MaxStagePuts /\ CalibPut(p) /\ UNCHANGED <<basil_vars, later_vars>>
    \/ \E p \in StageProcs : ExitStage(p) /\ UNCHANGED <<basil_vars, later_vars>>

SpecStages == InitLedger /\ [][NextStages]_vars

(***************************************************************************)
(* process_subject (scripts/run_pipeline.py): the stages called one after  *)
(* the other, and the image files the calls read and write.                *)
(***************************************************************************)
\* the stages of one pass of the loop: for target in ('asl', 'structural')
TargetStages(target) ==
    << [fn |-> "hcp_asl_distcorr", target |-> target] >>
    \o (IF target = "structural" THEN << [fn |-> "pv_est", target |-> target] >> ELSE << >>)
    \o << [fn |-> "tag_control_differencing", target |-> target] >>
    \o (IF target = "asl"
        THEN << [fn |-> "run_oxford_asl", target |-> target],
                [fn |-> "project_to_surface", target |-> target] >>
        ELSE << [fn |-> "hcp_asl_projected", target |-> target] >>)

\* the calls of process_subject, in the order of its statements
PipelineStages ==
    << [fn |-> "initial_processing", target |-> None],
       [fn |-> "correct_M0", target |-> None],
       [fn |-> "hcp_asl_moco", target |-> None] >>
    \o TargetStages("asl") \o TargetStages("structural")

\* the commands run with subprocess.run(..., check=True)
CheckedCommands == {"hcp_asl_distcorr", "pv_est", "hcp_asl_projected"}
\* the stage functions imported from modules of the package that are called
\* and left at once
OpaqueFunctions == {"hcp_asl_moco", "tag_control_differencing"}
\* the stage functions that work on the ledger step by step
LedgerFunctions == {"correct_M0", "run_oxford_asl"}

\* the process the stage functions of process_subject run in
PipelineProc == "p1"

\* distcorr_warps.py: the paths below sub_base with the default --outdir
asl_dir(d) == d \o "/hcp_asl/ASL/TIs/STCorr2"
asl_vol0(d) == asl_dir(d) \o "/tis_vol1.nii.gz"
reg_dir(d) == d \o "/hcp_asl/ASLT1w/reg"
t1_asl_grid(d) == reg_dir(d) \o "/ASL_grid_T1w_acpc_dc_restore.nii.gz"
t1_asl_grid_mask(d) == reg_dir(d) \o "/ASL_grid_T1w_acpc_dc_restore_brain_mask.nii.gz"
mask_name(d) == reg_dir(d) \o "/asl_vol1_mask_init.nii.gz"
ti_asl(d) == d \o "/hcp_asl/ASL/TIs/timing_img.nii.gz"
ti_t1(d) == d \o "/hcp_asl/ASLT1w/timing_img.nii.gz"
asl2struct_path(d) == reg_dir(d) \o "/asl2struct.mat"
asl_outpath(d) == d \o "/hcp_asl/ASLT1w/TIs/DistCorr/tis_distcorr.nii.gz"
calib_outpath(d) == d \o "/hcp_asl/ASLT1w/Calib/Calib0/DistCorr/calib0_dcorr.nii.gz"

\* unreg_img: the first volume for target 'asl', the perfusion image of
\* oxford_asl for target 'structural'
unreg_img(d, target) ==
    IF target = "asl"
    THEN asl_vol0(d)
    ELSE d \o "/hcp_asl/ASL/TIs/OxfordASL/native_space/perfusion.nii.gz"

\* pc_name = oxasl_dir / 'native_space/perfusion.nii.gz'
pc_name(oxasl_dir) == oxasl_dir \o "/native_space/perfusion.nii.gz"

\* the files of earlier stages a run of distcorr_warps.main reads
distcorr_reads(d, target) ==
    IF target = "structural"
    THEN {asl_vol0(d), t1_asl_grid(d), ti_asl(d), unreg_img(d, target)}
    ELSE {}

\* the files a run of distcorr_warps.main writes
distcorr_writes(d, target) ==
    IF target = "asl"
    THEN {asl_vol0(d), t1_asl_grid(d), t1_asl_grid_mask(d), mask_name(d), ti_asl(d)}
    ELSE {asl2struct_path(d), asl_outpath(d), calib_outpath(d), ti_t1(d)}

\* prepare_t1asl_space.py: the files a run of pv_est writes
pv_est_writes(d) ==
    {t1_asl_grid(d),
     d \o "/hcp_asl/ASLT1w/PVEs/vent_csf_mask.nii.gz",
     d \o "/hcp_asl/ASLT1w/PVEs/pve_GM.nii.gz",
     d \o "/hcp_asl/ASLT1w/PVEs/pve_WM.nii.gz",
     d \o "/hcp_asl/ASLT1w/PVEs/pve_CSF.nii.gz"}

\* what a command writes when it exits with status 0
command_writes(fn, d, target) ==
    IF fn = "hcp_asl_distcorr" THEN distcorr_writes(d, target)
    ELSE IF fn = "pv_est" THEN pv_est_writes(d)
    ELSE {}

\* the files written by the call with index k are added to the disk
Written(paths, k) ==
    [f \in DOMAIN disk \cup paths |->
        (IF f \in DOMAIN disk THEN disk[f] ELSE {}) \cup (IF f \in paths THEN {k} ELSE {})]

\* the stage process_subject is about to call
Cur == PipelineStages[pl_next]

\* the record of a call of the current stage
Call(result, status) ==
    [fn |-> Cur.fn, target |-> Cur.target, result |-> result, status |-> status,
     grads |-> (Cur.fn = "hcp_asl_distcorr" /\ gradients)]

\* the call returned: process_subject goes on to its next statement
Returned ==
    /\ pl_next' = pl_next + 1
    /\ pl_status' = IF pl_next + 1 > Len(PipelineStages) THEN "done" ELSE "running"

\* the call raised: nothing in process_subject catches the exception
Raised ==
    /\ pl_next' = pl_next
    /\ pl_status' = "failed"

\* no stage function is in progress and process_subject has a statement left
AtCall(fns) ==
    /\ pl_status = "running"
    /\ stage[PipelineProc].fn = None
    /\ Cur.fn \in fns

\* initial_processing(subject_dir, ...): creates the ledger, or raises
CallInitialProcessing ==
    /\ AtCall({"initial_processing"})
    /\ \/ /\ initial_processing(pl_dir)
          /\ calls' = Append(calls, Call("returned", 0))
          /\ Returned
       \/ /\ calls' = Append(calls, Call("raised", 0))
          /\ Raised
          /\ UNCHANGED ledger_vars
    /\ UNCHANGED <<stage, pl_dir, gradients, disk>>

\* hcp_asl_moco(...) and tag_control_differencing(...): the call returns or
\* raises
CallOpaqueFunction ==
    /\ AtCall(OpaqueFunctions)
    /\ \/ /\ calls' = Append(calls, Call("returned", 0))
          /\ Returned
       \/ /\ calls' = Append(calls, Call("raised", 0))
          /\ Raised
    /\ UNCHANGED <<ledger_vars, stage, pl_dir, gradients, disk>>

\* subprocess.run(call, check=True): with status 0 the outputs of the command
\* are on disk and process_subject goes on; a non-zero status raises
\* CalledProcessError
CallCheckedCommand ==
    /\ AtCall(CheckedCommands)
    /\ \E status \in {0, 1} :
          IF status = 0
          THEN /\ calls' = Append(calls, Call("returned", status))
               /\ disk' = Written(command_writes(Cur.fn, pl_dir, Cur.target), Len(calls) + 1)
               /\ Returned
          ELSE /\ calls' = Append(calls, Call("raised", status))
               /\ disk' = disk
               /\ Raised
    /\ UNCHANGED <<ledger_vars, stage, pl_dir, gradients>>

\* correct_M0(subject_dir, mt_factors) and run_oxford_asl(subject_dir, ...)
\* are entered: their first statement is load_json
CallLedgerFunction ==
    /\ AtCall(LedgerFunctions)
    /\ IF Cur.fn = "correct_M0"
       THEN StartCorrectM0(PipelineProc, pl_dir, FALSE)
       ELSE StartOxfordAsl(PipelineProc, pl_dir, FALSE)
    /\ calls' = Append(calls, Call("running", 0))
    /\ UNCHANGED <<pl_dir, gradients, pl_next, pl_status, disk>>

\* the oxford_asl command of run_oxford_asl: with status 0 its perfusion image
\* is in the output directory it was given
PipelineOxfordAslRun ==
    /\ pl_status = "running"
    /\ OxfordAslRun(PipelineProc)
    /\ disk' = IF stage'[PipelineProc].status = 0
               THEN Written({pc_name(oxford_dir(json_dict[PipelineProc]["structasl"],
                                                stage[PipelineProc].nobc))}, Len(calls))
               ELSE disk
    /\ UNCHANGED <<pl_dir, gradients, pl_next, pl_status, calls>>

\* the stage function has reached its end: the call returns
LedgerFunctionReturns ==
    /\ pl_status = "running"
    /\ stage[PipelineProc].step = "returned"
    /\ ExitStage(PipelineProc)
    /\ calls' = [calls EXCEPT ![Len(calls)].result = "returned",
                              ![Len(calls)].status = stage[PipelineProc].status]
    /\ Returned
    /\ UNCHANGED <<pl_dir, gradients, disk>>

\* the stage function raised: the exception leaves process_subject
LedgerFunctionRaises ==
    /\ pl_status = "running"
    /\ stage[PipelineProc].fn # None
    /\ st[PipelineProc] = "error"
    /\ ExitStage(PipelineProc)
    /\ calls' = [calls EXCEPT ![Len(calls)].result = "raised",
                              ![Len(calls)].status = stage[PipelineProc].status]
    /\ Raised
    /\ UNCHANGED <<pl_dir, gradients, disk>>

\* the ledger entries a fresh load_json of the subject would return
Ledger(d) == IF ASL_json(d) \in DOMAIN files THEN json_load(files[ASL_json(d)]) ELSE EmptyDict

\* project_to_surface(subject_dir, target='asl'): it looks up 'oxford_asl' in
\* the ledger, resamples the perfusion image found there and maps it to the
\* surfaces with wb_command, whose status it does not look at; it raises when
\* the ledger, the entry or an image it reads is missing
CallProjectToSurface ==
    /\ AtCall({"project_to_surface"})
    /\ \/ /\ "oxford_asl" \in DOMAIN Ledger(pl_dir)
          /\ pc_name(Ledger(pl_dir)["oxford_asl"]) \in DOMAIN disk
          /\ \E status \in {0, 1} :
                calls' = Append(calls, Call("returned", status))
          /\ disk' = Written({Ledger(pl_dir)["oxford_asl"]
                                 \o "/native_space/asl_t1_perfusion.nii.gz"},
                             Len(calls) + 1)
          /\ Returned
       \/ /\ calls' = Append(calls, Call("raised", 0))
          /\ disk' = disk
          /\ Raised
    /\ UNCHANGED <<ledger_vars, stage, pl_dir, gradients>>

NextPipeline ==
    \/ CallInitialProcessing /\ UNCHANGED <<basil_vars, guard_vars, transform_vars>>
    \/ CallOpaqueFunction /\ UNCHANGED <<basil_vars, guard_vars, transform_vars>>
    \/ CallCheckedCommand /\ UNCHANGED <<basil_vars, guard_vars, transform_vars>>
    \/ CallLedgerFunction /\ UNCHANGED <<basil_vars, guard_vars, transform_vars>>
    \/ /\ pl_status = "running"
       /\ CalibCommand(PipelineProc) /\ UNCHANGED <<basil_vars, later_vars>>
    \/ /\ pl_status = "running"
       /\ CalibPut(PipelineProc) /\ UNCHANGED <<basil_vars, later_vars>>
    \/ PipelineOxfordAslRun /\ UNCHANGED <<basil_vars, guard_vars, transform_vars>>
    \/ /\ pl_status = "running"
       /\ OxfordAslPut(PipelineProc) /\ UNCHANGED <<basil_vars, later_vars>>
    \/ LedgerFunctionReturns /\ UNCHANGED <<basil_vars, guard_vars, transform_vars>>
    \/ LedgerFunctionRaises /\ UNCHANGED <<basil_vars, guard_vars, transform_vars>>
    \/ CallProjectToSurface /\ UNCHANGED <<basil_vars, guard_vars, transform_vars>>

InitPipeline ==
    BasilStart({"L"}) /\ LedgerStart /\ PipelineStart(Dirs, BOOLEAN) /\ GuardedStart /\ TransformStart({None})

SpecPipeline == InitPipeline /\ [][NextPipeline]_vars

(***************************************************************************)
(* The guarded steps of prepare_t1asl_space.main (pv_est),                 *)
(* distcorr_warps.main (hcp_asl_distcorr) and surface_analysis: each       *)
(* output is computed under `if not exists(X) or force_refresh`.           *)
(***************************************************************************)
\* force_refresh = True, set at the head of each of the three functions
force_refresh == TRUE

\* an override that is never looked at
mutant_recompute(exists, refresh) == ~exists

\* if not op.exists(X) or force_refresh:
recompute(exists, refresh) == ~exists \/ refresh

\* one step: the output it writes, the path its guard checks, the targets it
\* is run for, the flag it depends on, whether it has a guard, and how it
\* computes ("python": code of the function; "checked": a command run with
\* check=True; "unchecked": a command whose status is not looked at)
GStep(out, check, targets, cond, guarded, kind) ==
    [out |-> out, check |-> check, targets |-> targets, cond |-> cond,
     guarded |-> guarded, kind |-> kind]

\* prepare_t1asl_space.main, lines 121-150
pv_est_steps ==
    << GStep("t1_asl_grid", "t1_asl_grid", {None}, "always", TRUE, "python"),
       GStep("ventricle_mask", "ventricle_mask", {None}, "always", TRUE, "python"),
       GStep("ASLT1w/PVEs/pve", "T1w/ASL/PVEs/pve_GM", {None}, "always", TRUE, "python") >>

\* distcorr_warps.main, lines 246-432
distcorr_steps ==
    << GStep("asl_vol0", "asl_vol0", {"asl"}, "always", TRUE, "checked"),
       GStep("t1_asl_grid", "t1_asl_grid", {"asl"}, "always", TRUE, "python"),
       GStep("t1_asl_grid_mask", "t1_asl_grid_mask", {"asl"}, "always", TRUE, "python"),
       GStep("asl2struct_path", "asl2struct_path", {"structural"}, "always", TRUE, "python"),
       GStep("mask_name", "mask_name", {"asl"}, "always", TRUE, "python"),
       GStep("asl_outpath", "asl_outpath", {"structural"}, "always", TRUE, "python"),
       GStep("calib_outpath", "calib_outpath", {"structural"}, "always", TRUE, "python"),
       GStep("fmap_struct_name", "fmap_struct_name", {"structural"}, "always", FALSE, "python"),
       GStep("reg_est_t1_name", "reg_est_t1_name", {"structural"}, "use_t1", TRUE, "python"),
       GStep("ti_asl", "ti_asl", {"asl"}, "always", TRUE, "python"),
       GStep("ti_t1", "ti_t1", {"structural"}, "always", TRUE, "python"),
       GStep("mt_sfs_calib_name", "mt_sfs_calib_name", {"structural"}, "bandingcorr", TRUE, "python"),
       GStep("sfs_outpath", "sfs_outpath", {"structural"}, "always", TRUE, "python") >>

\* surface_analysis, lines 164-240, the sides in the order of SIDES
surface_steps ==
    << GStep("L_proj_perf_name", "L_proj_perf_name", {None}, "always", TRUE, "unchecked"),
       GStep("R_proj_perf_name", "R_proj_perf_name", {None}, "always", TRUE, "unchecked"),
       GStep("L_mean_name", "L_mean_name", {None}, "always", TRUE, "python"),
       GStep("R_mean_name", "R_mean_name", {None}, "always", TRUE, "python"),
       GStep("L_proj_perf_name", "L_proj_perf_name", {None}, "always", FALSE, "python"),
       GStep("R_proj_perf_name", "R_proj_perf_name", {None}, "always", FALSE, "python"),
       GStep("L_proj_tiimg_name", "L_proj_tiimg_name", {None}, "always", TRUE, "unchecked"),
       GStep("R_proj_tiimg_name", "R_proj_tiimg_name", {None}, "always", TRUE, "unchecked"),
       GStep("L_proj_tiimg_name", "L_proj_tiimg_name", {None}, "always", FALSE, "python"),
       GStep("R_proj_tiimg_name", "R_proj_tiimg_name", {None}, "always", FALSE, "python"),
       GStep("L_basil", "L_basil", {None}, "always", FALSE, "python"),
       GStep("R_basil", "R_basil", {None}, "always", FALSE, "python") >>

GuardedFunctions == {"pv_est", "hcp_asl_distcorr", "surface_analysis"}

GuardedSteps(fn) ==
    IF fn = "pv_est" THEN pv_est_steps
    ELSE IF fn = "hcp_asl_distcorr" THEN distcorr_steps
    ELSE surface_steps

\* the arguments a function can be started with
GuardedArgs ==
    [fn : {"pv_est", "surface_analysis"}, target : {None}, use_t1 : {FALSE},
     nobandingcorr : {FALSE}]
    \cup [fn : {"hcp_asl_distcorr"}, target : {"asl", "structural"}, use_t1 : BOOLEAN,
          nobandingcorr : BOOLEAN]

\* the function is started (again): its outputs of earlier runs are on disk
GuardedRun(a) ==
    /\ gs_state = "idle"
    /\ gs_runs < MaxRuns
    /\ gs_fn' = a.fn
    /\ gs_target' = a.target
    /\ gs_use_t1' = a.use_t1
    /\ gs_nobandingcorr' = a.nobandingcorr
    /\ gs_pos' = 1
    /\ gs_state' = "running"
    /\ gs_runs' = gs_runs + 1
    /\ UNCHANGED <<gs_disk, gs_last>>

\* the conditions beside the guard: `and target == ...`, `and use_t1`,
\* `if not args.nobandingcorr`
applies(step) ==
    /\ gs_target \in step.targets
    /\ step.cond = "use_t1" => gs_use_t1
    /\ step.cond = "bandingcorr" => ~gs_nobandingcorr

\* number of times a path was written
version(path) == IF path \in DOMAIN gs_disk THEN gs_disk[path] ELSE 0

\* the function goes on to the statement after the step
StepDone ==
    /\ gs_pos' = gs_pos + 1
    /\ gs_state' = IF gs_pos + 1 > Len(GuardedSteps(gs_fn)) THEN "returned" ELSE "running"

\* what the step leaves in the history
StepTaken(step, recomputed) ==
    [run |-> gs_runs, out |-> step.out, guarded |-> step.guarded,
     existed |-> step.out \in DOMAIN gs_disk, recomputed |-> recomputed,
     before |-> version(step.out)]

\* one step of the function: it is passed over when it is not for this target,
\* skipped when its guard says so, and computed otherwise; the computation
\* writes the output, or raises, or (a command whose status is not looked at)
\* writes nothing and the function goes on
GuardedStep ==
    /\ gs_state = "running"
    /\ LET step == GuardedSteps(gs_fn)[gs_pos] IN
       IF ~applies(step)
       THEN StepDone /\ UNCHANGED <<gs_disk, gs_last>>
       ELSE IF step.guarded /\ ~recompute(step.check \in DOMAIN gs_disk, force_refresh)
       THEN /\ StepDone
            /\ gs_last' = StepTaken(step, FALSE)
            /\ UNCHANGED gs_disk
       ELSE /\ gs_last' = StepTaken(step, TRUE)
            /\ \/ /\ gs_disk' = (step.out :> (version(step.out) + 1)) @@ gs_disk
                  /\ StepDone
               \/ /\ step.kind \in {"python", "checked"}
                  /\ gs_state' = "failed"
                  /\ UNCHANGED <<gs_disk, gs_pos>>
               \/ /\ step.kind = "unchecked"
                  /\ StepDone
                  /\ UNCHANGED gs_disk
    /\ UNCHANGED <<gs_fn, gs_target, gs_use_t1, gs_nobandingcorr, gs_runs>>

\* the process of the function ends
GuardedExit ==
    /\ gs_state \in {"returned", "failed"}
    /\ gs_state' = "idle"
    /\ gs_fn' = None
    /\ gs_target' = None
    /\ gs_use_t1' = FALSE
    /\ gs_nobandingcorr' = FALSE
    /\ gs_pos' = 1
    /\ UNCHANGED <<gs_runs, gs_disk, gs_last>>

NextGuarded ==
    \/ \E a \in GuardedArgs :
          GuardedRun(a) /\ UNCHANGED <<basil_vars, ledger_vars, stage, pipeline_vars, transform_vars>>
    \/ GuardedStep /\ UNCHANGED <<basil_vars, ledger_vars, stage, pipeline_vars, transform_vars>>
    \/ GuardedExit /\ UNCHANGED <<basil_vars, ledger_vars, stage, pipeline_vars, transform_vars>>

InitGuarded ==
    BasilStart({"L"}) /\ LedgerStart /\ PipelineStart({"/data/subA"}, {FALSE}) /\ GuardedStart /\ TransformStart({None})

SpecGuarded == InitGuarded /\ [][NextGuarded]_vars

(***************************************************************************)
(* generate_asl2struct (m0_mt_correction.py): bbregister writes the        *)
(* asl -> orig.mgz matrix in FSL convention, the matrix is imported with   *)
(* from_flirt, and when the import raises RuntimeError the file is         *)
(* rewritten with 5 decimals and imported once more.                       *)
(* Matrix entries are integers counting units of 10^-(Decimals+1): the     *)
(* model keeps one decimal more than the rounding keeps.                   *)
(***************************************************************************)
\* np.savetxt(omat_path, arr, fmt='%.5f')
Decimals == 5

RECURSIVE Pow10(_)
Pow10(n) == IF n = 0 THEN 1 ELSE 10 * Pow10(n - 1)

\* the number 1.0, and the step between two numbers that '%.5f' can print
One == Pow10(Decimals + 1)
Step == Pow10(1)

\* the entry as '%.5f' prints it and np.loadtxt reads it back: the nearest
\* multiple of Step (no entry of Omats lies half way between two of them)
mutant_round5(x) == x

round5(x) == LET r == x % Step
             IN  IF 2 * r < Step THEN x - r ELSE x + (Step - r)

\* arr = np.loadtxt(omat_path); np.savetxt(omat_path, arr, fmt='%.5f')
rounded_matrix(arr) == [i \in DOMAIN arr |-> [j \in DOMAIN arr[i] |-> round5(arr[i][j])]]

\* from_flirt raises RuntimeError when the final row != [0 0 0 1]
bottom_row_ok(arr) == arr[4] = <<0, 0, 0, One>>

\* the rows bbregister may write above the bottom row (a small rotation and a shift)
UpperRows == <<<<One, 0, 0, One + 234567>>,
               <<0, One - 2, 1745, 0 - (2 * One + 4)>>,
               <<0, 0 - 1745, One - 2, 0>>>>

\* the bottom rows bbregister may write: exact, off by less than half a Step
\* (rounding repairs them) and off by more (rounding does not)
BottomRows == {<<e1, e2, e3, e4>> : e1 \in {0, 3, 0 - 4}, e2 \in {0, 6}, e3 \in {0, 2},
                                    e4 \in {One, One + 3, One - 6}}
Omats == {UpperRows \o <<b>> : b \in BottomRows}

reg_dir_of_call == "/data/subA/T1w/ASL/reg"
new_sd == "/data/subA/T1w"

\* lines 43-51: remember the directory and the variable, enter reg_dir, set SUBJECTS_DIR
Asl2structEnter ==
    /\ reg_pc = "idle"
    /\ reg_old_sd' = reg_env
    /\ reg_pwd' = reg_cwd
    /\ reg_cwd' = reg_dir_of_call
    /\ reg_env' = new_sd
    /\ reg_pc' = "bbregister"
    /\ UNCHANGED <<reg_omat, reg_written, reg_status, reg_attempts, reg_rounded>>

\* lines 52-55: subprocess.run(cmd, shell=True); the exit status is not looked at
Bbregister ==
    /\ reg_pc = "bbregister"
    /\ \E m \in Omats, s \in {0, 1} :
          /\ reg_omat' = m
          /\ reg_written' = m
          /\ reg_status' = s
    /\ reg_pc' = "from_flirt"
    /\ UNCHANGED <<reg_cwd, reg_env, reg_pwd, reg_old_sd, reg_attempts, reg_rounded>>

\* lines 57-59: the first import
FromFlirt ==
    /\ reg_pc = "from_flirt"
    /\ reg_attempts' = reg_attempts + 1
    /\ reg_pc' = IF bottom_row_ok(reg_omat) THEN "restore" ELSE "except"
    /\ UNCHANGED <<reg_cwd, reg_env, reg_pwd, reg_old_sd, reg_omat, reg_written,
                   reg_status, reg_rounded>>

\* lines 60-65: the except block. A RuntimeError of the import inside it
\* leaves generate_asl2struct: nothing after the block is run
RoundAndRetry ==
    /\ reg_pc = "except"
    /\ reg_omat' = rounded_matrix(reg_omat)
    /\ reg_rounded' = reg_rounded + 1
    /\ reg_attempts' = reg_attempts + 1
    /\ reg_pc' = IF bottom_row_ok(reg_omat') THEN "restore" ELSE "failed"
    /\ UNCHANGED <<reg_cwd, reg_env, reg_pwd, reg_old_sd, reg_written, reg_status>>

\* asl2orig_fsl.to_flirt(asl_vol0, struct): the same mapping, written for
\* the T1w image as reference instead of orig.mgz
to_flirt(arr, ref) == [ref |-> ref, of |-> arr]

\* lines 69-73: back to pwd, SUBJECTS_DIR put back when it was set, output saved
Asl2structRestore ==
    /\ reg_pc = "restore"
    /\ reg_cwd' = reg_pwd
    /\ reg_env' = IF reg_old_sd # None THEN reg_old_sd ELSE reg_env
    /\ reg_omat' = <<to_flirt(reg_omat, "struct")>>
    /\ reg_pc' = "done"
    /\ UNCHANGED <<reg_pwd, reg_old_sd, reg_written, reg_status, reg_attempts, reg_rounded>>

NextAsl2struct ==
    \/ Asl2structEnter /\ UNCHANGED <<basil_vars, ledger_vars, stage, pipeline_vars, guard_vars, rs_vars, pure_vars>>
    \/ Bbregister /\ UNCHANGED <<basil_vars, ledger_vars, stage, pipeline_vars, guard_vars, rs_vars, pure_vars>>
    \/ FromFlirt /\ UNCHANGED <<basil_vars, ledger_vars, stage, pipeline_vars, guard_vars, rs_vars, pure_vars>>
    \/ RoundAndRetry /\ UNCHANGED <<basil_vars, ledger_vars, stage, pipeline_vars, guard_vars, rs_vars, pure_vars>>
    \/ Asl2structRestore /\ UNCHANGED <<basil_vars, ledger_vars, stage, pipeline_vars, guard_vars, rs_vars, pure_vars>>

InitAsl2struct ==
    /\ BasilStart({"L"}) /\ LedgerStart /\ PipelineStart({"/data/subA"}, {FALSE})
    /\ GuardedStart /\ TransformStart({None, "/freesurfer/subjects"})

SpecAsl2struct == InitAsl2struct /\ [][NextAsl2struct]_vars

(***************************************************************************)
(* The corrected series (distcorr_warps.py, lines 279-288 and 351-358):    *)
(* the motion correction is read, rebased on volume 0, chained with the    *)
(* distortion corrections and the registration, and applied to the series  *)
(* with args.cores workers.                                                *)
(* A transform maps a world coordinate x to a * x + b, where a is 1 or -1  *)
(* (a flip): chaining two of them does not commute.                        *)
(***************************************************************************)
Apply(t, x) == t.a * x + t.b

mutant_Then(t, u) == [a |-> t.a * u.a, b |-> t.a * u.b + t.b]

\* chain(t, u): t's mapping, then u's
Then(t, u) == [a |-> u.a * t.a, b |-> u.a * t.b + u.b]

inverse(t) == [a |-> t.a, b |-> 0 - (t.a * t.b)]

\* the matrices mcflirt may have written for one volume
Linears == {[a |-> 1, b |-> 0], [a |-> 1, b |-> 1], [a |-> 0 - 1, b |-> 1]}

\* from_mcflirt(mcdir, asl, calib): one transform per volume of the series
MotionCorrections == UNION {[0 .. (n - 1) -> Linears] : n \in 1 .. MaxVols}

\* the warps and the registration read from disk
GdcWarps == {[a |-> 1, b |-> 2]}
DcWarps == {[a |-> 1, b |-> 0], [a |-> 0 - 1, b |-> 3]}
Asl2structRegs == {[a |-> 0 - 1, b |-> 5]}

\* calib2asl0 = asl2calib_mc[0].inverse()
calib2asl0(in) == inverse(in.asl2calib_mc[0])

\* an element of a chain: one transform, or one transform per timepoint
Fixed(t) == [varying |-> FALSE, ts |-> [i \in {0} |-> t]]
Series(ts) == [varying |-> TRUE, ts |-> ts]

\* the two arguments of rt.chain the other way round
mutant_asl_mc(in) ==
    Series([i \in DOMAIN in.asl2calib_mc |-> Then(calib2asl0(in), in.asl2calib_mc[i])])

\* asl_mc = rt.chain(asl2calib_mc, calib2asl0): again a motion correction
asl_mc(in) ==
    Series([i \in DOMAIN in.asl2calib_mc |-> Then(in.asl2calib_mc[i], calib2asl0(in))])

\* asl2struct_mc_dc = rt.chain(gdc, dc_warp, asl_mc, asl2struct_reg)
asl2struct_mc_dc(in) ==
    <<Fixed(in.gdc), Fixed(in.dc_warp), asl_mc(in), Fixed(in.asl2struct_reg)>>

\* the first k elements of the chain collapsed into one transform, each
\* time-varying element contributing its transform of timepoint i
RECURSIVE collapse(_, _, _)
collapse(ch, i, k) ==
    IF k = 0 THEN [a |-> 1, b |-> 0]
    ELSE Then(collapse(ch, i, k - 1),
              IF ch[k].varying THEN ch[k].ts[i] ELSE ch[k].ts[0])

mutant_timepoint_transform(ch, i) == collapse(ch, 0, Len(ch))

\* the transform that timepoint i of the series is resampled with
timepoint_transform(ch, i) == collapse(ch, i, Len(ch))

\* volume i of the source series resampled onto the reference grid with t
resample(i, t) == [vol |-> i, by |-> t]

Timepoints == DOMAIN rs_in.asl2calib_mc
Workers == 1 .. rs_in.cores
mutant_pending == Timepoints \ DOMAIN rs_result

\* the timepoints no worker was handed yet
pending == Timepoints \ DOMAIN rs_task
current(w) == {i \in DOMAIN rs_task :
                  rs_task[i] = w /\ i \notin DOMAIN rs_result /\ i \notin rs_failed}

mutant_assemble(results, order) == [i \in DOMAIN results |-> results[order[i + 1]]]

\* the per-timepoint results put together into the output series
assemble(results, order) == [i \in DOMAIN results |-> results[i]]

mutant_call_result(results, failed, order) ==
    [returned |-> TRUE, series |-> assemble(results, order)]

\* what the call gives back: the series, or nothing when a timepoint raised
call_result(results, failed, order) ==
    IF failed = {} THEN [returned |-> TRUE, series |-> assemble(results, order)]
    ELSE NoSeries

\* lines 283-356: the transforms are loaded, the chain is built and applied
ApplyToImage ==
    /\ rs_pc = "idle"
    /\ \E mc \in MotionCorrections, g \in GdcWarps, dc \in DcWarps,
          r \in Asl2structRegs, c \in 1 .. MaxCores :
          rs_in' = [asl2calib_mc |-> mc, gdc |-> g, dc_warp |-> dc,
                    asl2struct_reg |-> r, cores |-> c]
    /\ rs_pc' = "resampling"
    /\ UNCHANGED <<rs_task, rs_result, rs_failed, rs_order, rs_log, rs_out, rs_saved>>

\* a free worker is handed the next timepoint; with one core the volumes are
\* resampled in a loop that an exception leaves
WorkerTakes(w) ==
    /\ rs_pc = "resampling"
    /\ current(w) = {}
    /\ pending # {}
    /\ rs_in.cores = 1 => rs_failed = {}
    /\ LET i == CHOOSE i \in pending : \A j \in pending : i <= j
       IN  /\ rs_task' = (i :> w) @@ rs_task
           /\ rs_log' = rs_log \cup {[op |-> "take", worker |-> w, timepoint |-> i]}
    /\ UNCHANGED <<rs_pc, rs_in, rs_result, rs_failed, rs_order, rs_out, rs_saved>>

\* the worker's resampling of its timepoint completes, or raises
WorkerFinishes(w, ok) ==
    /\ rs_pc = "resampling"
    /\ current(w) # {}
    /\ LET i == CHOOSE i \in current(w) : TRUE
       IN  IF ok
           THEN /\ rs_result' =
                       (i :> resample(i, timepoint_transform(asl2struct_mc_dc(rs_in), i)))
                       @@ rs_result
                /\ rs_order' = Append(rs_order, i)
                /\ rs_log' = rs_log \cup {[op |-> "write", worker |-> w, timepoint |-> i]}
                /\ rs_failed' = rs_failed
           ELSE /\ rs_failed' = rs_failed \cup {i}
                /\ UNCHANGED <<rs_result, rs_order, rs_log>>
    /\ UNCHANGED <<rs_pc, rs_in, rs_task, rs_out, rs_saved>>

\* lines 354-358: the call returns the series, which nb.save writes, or the
\* exception of a timepoint leaves the call and main
ApplyEnds ==
    /\ rs_pc = "resampling"
    /\ rs_failed # {} \/ DOMAIN rs_result = Timepoints
    /\ rs_out' = call_result(rs_result, rs_failed, rs_order)
    /\ rs_pc' = IF rs_out'.returned THEN "returned" ELSE "failed"
    /\ rs_saved' = IF rs_out'.returned THEN rs_out'.series ELSE rs_saved
    /\ UNCHANGED <<rs_in, rs_task, rs_result, rs_failed, rs_order, rs_log>>

NextResample ==
    \/ ApplyToImage /\ UNCHANGED <<basil_vars, ledger_vars, stage, pipeline_vars, guard_vars, reg_vars, pure_vars>>
    \/ \E w \in Workers :
          WorkerTakes(w) /\ UNCHANGED <<basil_vars, ledger_vars, stage, pipeline_vars, guard_vars, reg_vars, pure_vars>>
    \/ \E w \in Workers, ok \in BOOLEAN :
          WorkerFinishes(w, ok) /\ UNCHANGED <<basil_vars, ledger_vars, stage, pipeline_vars, guard_vars, reg_vars, pure_vars>>
    \/ ApplyEnds /\ UNCHANGED <<basil_vars, ledger_vars, stage, pipeline_vars, guard_vars, reg_vars, pure_vars>>

InitResample ==
    /\ BasilStart({"L"}) /\ LedgerStart /\ PipelineStart({"/data/subA"}, {FALSE})
    /\ GuardedStart /\ TransformStart({None})

SpecResample == InitResample /\ [][NextResample]_vars

(***************************************************************************)
(* Chains of two transforms and their inverses, as distcorr_warps.py       *)
(* (lines 326-345) and correct_M0 (m0_mt_correction.py, lines 241-250)     *)
(* build them.                                                             *)
(***************************************************************************)
\* the matrices a registration tool may have written to a .mat file
Registrations == {[a |-> s, b |-> d] : s \in {1, 0 - 1}, d \in (0 - MaxShift) .. MaxShift}

\* distcorr_warps.py, target == 'asl':
\* asl2struct_reg = rt.chain(calib2asl0.inverse(), calib2struct)
Asl2structReg ==
    /\ ch_pc = "idle"
    /\ \E mc0 \in Registrations, calib2struct \in Registrations :
          /\ ch_A' = inverse(calib2asl0([asl2calib_mc |-> [i \in {0} |-> mc0]]))
          /\ ch_B' = calib2struct
    /\ ch_AB' = Then(ch_A', ch_B')
    /\ ch_pc' = "asl2struct_reg"
    /\ UNCHANGED ch_inv

\* correct_M0: struct2calib_reg = asl2struct_reg.inverse();
\* fmap2calib_reg = rt.chain(bbr_fmap2struct, struct2calib_reg)
Fmap2calibReg ==
    /\ ch_pc = "idle"
    /\ \E bbr_fmap2struct \in Registrations, asl2struct_reg \in Registrations :
          /\ ch_A' = bbr_fmap2struct
          /\ ch_B' = inverse(asl2struct_reg)
    /\ ch_AB' = Then(ch_A', ch_B')
    /\ ch_pc' = "fmap2calib_reg"
    /\ UNCHANGED ch_inv

\* distcorr_warps.py line 339: asl2struct_reg.inverse(), for the brain mask
InvertAsl2structReg ==
    /\ ch_pc = "asl2struct_reg"
    /\ ch_inv' = inverse(ch_AB)
    /\ ch_pc' = "inverted"
    /\ UNCHANGED <<ch_A, ch_B, ch_AB>>

NextChain ==
    \/ Asl2structReg /\ UNCHANGED <<basil_vars, ledger_vars, stage, pipeline_vars, guard_vars, reg_vars, rs_vars, av_vars, ps_vars>>
    \/ Fmap2calibReg /\ UNCHANGED <<basil_vars, ledger_vars, stage, pipeline_vars, guard_vars, reg_vars, rs_vars, av_vars, ps_vars>>
    \/ InvertAsl2structReg /\ UNCHANGED <<basil_vars, ledger_vars, stage, pipeline_vars, guard_vars, reg_vars, rs_vars, av_vars, ps_vars>>

InitChain ==
    /\ BasilStart({"L"}) /\ LedgerStart /\ PipelineStart({"/data/subA"}, {FALSE})
    /\ GuardedStart /\ TransformStart({None})

SpecChain == InitChain /\ [][NextChain]_vars

(***************************************************************************)
(* surface_analysis, lines 232-240: do_basil is called for each side in    *)
(* turn, with out_dir = projected_betas/<side>_basil. ftiss, ftiss_raw and *)
(* mvn are the files of the out_dir of the call that runs.                 *)
(***************************************************************************)
\* SIDES = ('L', 'R'), in the order the for loops go through it
SidesInOrder == <<"L", "R">>

\* out_dir = projected_beta_dir / f'{side}_basil'
basil_dir(side) == side \o "_basil"

\* the position in SIDES of the side whose fit runs
side_index == CHOOSE k \in 1 .. Len(SidesInOrder) : basil_dir(SidesInOrder[k]) = out_dir

\* a loop that goes on to the next side whatever became of the fit
mutant_SidesLoop ==
    /\ pc \in {"done", "failed"}
    /\ side_index < Len(SidesInOrder)
    /\ out_dir' = basil_dir(SidesInOrder[side_index + 1])
    /\ pc' = "fabber"
    /\ iteration' = 0
    /\ ftiss' = [i \in {} |-> None]
    /\ ftiss_raw' = [i \in {} |-> None]
    /\ mvn' = [i \in Iterations |-> FALSE]
    /\ UNCHANGED <<fabber_calls, wb_calls>>

\* do_basil returned for one side: the loop calls it for the next one. An
\* exception of do_basil leaves the loop and surface_analysis
SidesLoop ==
    /\ pc = "done"
    /\ side_index < Len(SidesInOrder)
    /\ out_dir' = basil_dir(SidesInOrder[side_index + 1])
    /\ pc' = "fabber"
    /\ iteration' = 0
    /\ ftiss' = [i \in {} |-> None]
    /\ ftiss_raw' = [i \in {} |-> None]
    /\ mvn' = [i \in Iterations |-> FALSE]
    /\ UNCHANGED <<fabber_calls, wb_calls>>

NextSurfaceFit ==
    \/ FabberOk /\ UNCHANGED <<ledger_vars, stage, later_vars>>
    \/ FabberFail /\ UNCHANGED <<ledger_vars, stage, later_vars>>
    \/ FabberKilled /\ UNCHANGED <<ledger_vars, stage, later_vars>>
    \/ ThresholdOk /\ UNCHANGED <<ledger_vars, stage, later_vars>>
    \/ ThresholdFail /\ UNCHANGED <<ledger_vars, stage, later_vars>>
    \/ SidesLoop /\ UNCHANGED <<ledger_vars, stage, later_vars>>

InitSurfaceFit ==
    /\ BasilStart({SidesInOrder[1]}) /\ LedgerStart /\ PipelineStart({"/data/subA"}, {FALSE})
    /\ GuardedStart /\ TransformStart({None})

SpecSurfaceFit == InitSurfaceFit /\ [][NextSurfaceFit]_vars

(***************************************************************************)
(* average_tis (analysis_on_surface.py, lines 46-70): the mean over the    *)
(* repeats of each inversion time. Input columns are numbered from 0 as in *)
(* the code, the entries of rpts and the output columns from 1. A mean is  *)
(* kept as the sum and the number of the columns it is taken over.         *)
(***************************************************************************)
\* the rpts arguments tried: REPEATS, which surface_analysis passes, and
\* every shorter list of small counts
RptsArgs == {REPEATS} \cup UNION {[1 .. n -> 1 .. MaxRepeat] : n \in 1 .. MaxTIs}

\* the columns the series may have beyond those the repeats account for
ExtraCols == {0, 1, 2}

\* the value of column j at vertex v, for two different series
FuncPatterns == {1, 2}
func_value(v, j, p) == (((j + 1) * (j + p)) % 11) + (IF v = "v1" THEN 0 ELSE 3)

\* func_data of load_functional: one row per vertex, one column per volume
func_data(ncols, p) == [v \in Vertices |-> [j \in 0 .. (ncols - 1) |-> func_value(v, j, p)]]

\* np.cumsum(rpts)[k - 1]
RECURSIVE cumsum(_, _)
cumsum(r, k) == IF k = 0 THEN 0 ELSE cumsum(r, k - 1) + r[k]

\* every block starting at column 0
mutant_zip_slices(r) ==
    [k \in 1 .. Len(r) |-> [x |-> 0, y |-> cumsum(r, k)]]

\* zip(cum_rpts-rpts, cum_rpts)
zip_slices(r) ==
    [k \in 1 .. Len(r) |-> [x |-> cumsum(r, k) - r[k], y |-> cumsum(r, k)]]

\* the sum of row[x:y]; a slice ends where the row ends
RECURSIVE slice_sum(_, _, _)
slice_sum(row, x, y) ==
    IF x >= y \/ x \notin DOMAIN row THEN 0 ELSE row[x] + slice_sum(row, x + 1, y)

\* func_data[:, x:y].mean(axis=1), for one vertex
slice_mean(row, x, y) ==
    [sum |-> slice_sum(row, x, y), n |-> Cardinality({j \in DOMAIN row : x <= j /\ j < y})]

\* mean_func
mean_func(fd, slices) ==
    [v \in DOMAIN fd |-> [k \in 1 .. Len(slices) |-> slice_mean(fd[v], slices[k].x, slices[k].y)]]

\* average_tis(fname, sname, rpts, oname): the series is loaded, averaged and saved
AverageTis ==
    /\ av_pc = "idle"
    /\ \E r \in RptsArgs, extra \in ExtraCols, p \in FuncPatterns :
          /\ av_rpts' = r
          /\ av_data' = func_data(cumsum(r, Len(r)) + extra, p)
    /\ av_slices' = zip_slices(av_rpts')
    /\ av_mean' = mean_func(av_data', av_slices')
    /\ av_pc' = "saved"

NextAverage ==
    \/ AverageTis /\ UNCHANGED <<basil_vars, ledger_vars, stage, pipeline_vars, guard_vars, reg_vars, rs_vars, ch_vars, ps_vars>>

InitAverage ==
    /\ BasilStart({"L"}) /\ LedgerStart /\ PipelineStart({"/data/subA"}, {FALSE})
    /\ GuardedStart /\ TransformStart({None})

SpecAverage == InitAverage /\ [][NextAverage]_vars

(***************************************************************************)
(* project_to_surface (projection.py): the loop over product(names, sides) *)
(* and the names it saves under. A file name is the sequence of its        *)
(* characters.                                                             *)
(***************************************************************************)
perfusion_nii_gz == <<"p", "e", "r", "f", "u", "s", "i", "o", "n", ".", "n", "i", "i", ".", "g", "z">>
perfusion_var_nii_gz == <<"p", "e", "r", "f", "u", "s", "i", "o", "n", "_", "v", "a", "r",
                          ".", "n", "i", "i", ".", "g", "z">>
asl_t1_ == <<"a", "s", "l", "_", "t", "1", "_">>
func_gii == <<".", "f", "u", "n", "c", ".", "g", "i", "i">>

\* names = (pc_name, vc_name): for target 'asl' the registered copies
\* asl_t1_perfusion.nii.gz and asl_t1_perfusion_var.nii.gz
names(target) ==
    IF target = "asl"
    THEN <<asl_t1_ \o perfusion_nii_gz, asl_t1_ \o perfusion_var_nii_gz>>
    ELSE <<perfusion_nii_gz, perfusion_var_nii_gz>>

\* product(names, sides)
names_sides(target) ==
    [k \in 1 .. (2 * Len(SidesInOrder)) |->
        [name |-> names(target)[((k - 1) \div Len(SidesInOrder)) + 1],
         side |-> SidesInOrder[((k - 1) % Len(SidesInOrder)) + 1]]]

\* Path.stem: the name without its last suffix
path_stem(name) ==
    LET dots == {i \in 2 .. Len(name) : name[i] = "."}
    IN  IF dots = {} THEN name
        ELSE SubSeq(name, 1, (CHOOSE i \in dots : \A j \in dots : j <= i) - 1)

\* str.strip(chars): the characters of chars taken off both ends
RECURSIVE lstrip(_, _)
lstrip(s, chars) ==
    IF s # << >> /\ Head(s) \in chars THEN lstrip(Tail(s), chars) ELSE s
RECURSIVE rstrip(_, _)
rstrip(s, chars) ==
    IF s # << >> /\ s[Len(s)] \in chars THEN rstrip(SubSeq(s, 1, Len(s) - 1), chars) ELSE s
strip(s, chars) == rstrip(lstrip(s, chars), chars)

\* stem = name.stem.strip('.nii')
stem(name) == strip(path_stem(name), {".", "n", "i"})

\* savename = projection_dir / f'{side}_{stem}.func.gii'
savename(oxasl_dir, side, name) ==
    [dir |-> oxasl_dir \o "/SurfaceResults32k", name |-> <<side, "_">> \o stem(name) \o func_gii]

\* the values of json_dict['oxford_asl'] that run_oxford_asl puts
OxfordAslDirs == {oxford_dir(d \o "/T1w/ASL", b) : d \in Dirs, b \in BOOLEAN}

\* lines 11-53: the ledger is loaded, the volumes are named (and for target
\* 'asl' registered and saved), the directory of the results is made
ProjectToSurface ==
    /\ ps_pc = "idle"
    /\ \E target \in {"asl", "structural"}, dir \in OxfordAslDirs :
          ps_in' = [target |-> target, oxford_asl |-> dir]
    /\ ps_pc' = "loop"
    /\ UNCHANGED <<ps_k, ps_runs>>

\* lines 55-77: one pass of the loop; the status of wb_command is not looked at
ProjectPair ==
    /\ ps_pc = "loop"
    /\ LET pair == names_sides(ps_in.target)[ps_k]
       IN  \E status \in {0, 1} :
              ps_runs' = Append(ps_runs,
                                [name |-> pair.name, side |-> pair.side,
                                 savename |-> savename(ps_in.oxford_asl, pair.side, pair.name),
                                 status |-> status])
    /\ ps_k' = ps_k + 1
    /\ ps_pc' = IF ps_k < Len(names_sides(ps_in.target)) THEN "loop" ELSE "returned"
    /\ UNCHANGED ps_in

NextProject ==
    \/ ProjectToSurface /\ UNCHANGED <<basil_vars, ledger_vars, stage, pipeline_vars, guard_vars, reg_vars, rs_vars, ch_vars, av_vars>>
    \/ ProjectPair /\ UNCHANGED <<basil_vars, ledger_vars, stage, pipeline_vars, guard_vars, reg_vars, rs_vars, ch_vars, av_vars>>

InitProject ==
    /\ BasilStart({"L"}) /\ LedgerStart /\ PipelineStart({"/data/subA"}, {FALSE})
    /\ GuardedStart /\ TransformStart({None})

SpecProject == InitProject /\ [][NextProject]_vars

(***************************************************************************)
(* Claims about the staged fit driver, checked under SpecBasil.            *)
(***************************************************************************)
FinalMVN(output) == [dir |-> output, file |-> "finalMVN.nii.gz"]

\* C1: in a run of do_basil in which every external invocation succeeds, the
\* estimator is invoked exactly once for each of the stages 0,1,2,3,4, in that
\* order; stage 0 has no warm-start argument and every stage i >= 1 is given
\* the finalMVN file of the output directory of stage i-1, which that stage
\* has completed.
C1_StagesInOrderWithWarmStart ==
    /\ \A k \in 1 .. Len(fabber_calls) :
          /\ fabber_calls[k].cmd.iteration = k - 1
          /\ k = 1 => fabber_calls[k].cmd.mvn = << >>
          /\ k > 1 => /\ fabber_calls[k].cmd.mvn = << FinalMVN(fabber_calls[k - 1].cmd.output) >>
                      /\ fabber_calls[k - 1].status = 0
                      /\ mvn[k - 2]
    /\ pc = "done" => /\ Len(fabber_calls) = 5
                      /\ \A k \in 1 .. 5 : fabber_calls[k].status = 0

C1_Witness ==
    /\ pc = "done"
    /\ Len(fabber_calls) = 5
    /\ fabber_calls[5].cmd.mvn = << FinalMVN(fabber_calls[4].cmd.output) >>

\* C2: when the estimator invocation of stage k returns a non-zero status the
\* driver aborts: that invocation is the last one ever made (no later stage,
\* no second invocation of stage k), and the invocations made up to it are
\* those of stages 0..k with none left out.
C2_AbortOnEstimatorFailure ==
    /\ [](\A k \in 1 .. Len(fabber_calls) :
             /\ fabber_calls[k].cmd.iteration = k - 1
             /\ fabber_calls[k].status # 0 => k = Len(fabber_calls) /\ pc = "failed")
    /\ [][pc = "failed" => fabber_calls' = fabber_calls /\ pc' = "failed"]_vars

\* the scenario of the spec: the estimator fails at stage 2
C2_Witness ==
    /\ pc = "failed"
    /\ Len(fabber_calls) = 3
    /\ fabber_calls[3].cmd.iteration = 2
    /\ fabber_calls[3].status # 0

\* C3: for every stage i in 0..4 the estimator's data source is the
\* mean-of-repeats image for i in {0,1} and the full repeated series for i in
\* {2,3,4}, and the method is spatially regularized for stage 4 only; the
\* outputs of earlier stages have no influence on either.
C3_DataAndMethodPerStage ==
    \A k \in 1 .. Len(fabber_calls) :
        LET c == fabber_calls[k].cmd IN
        /\ c.iteration \in {0, 1} => c.data = "mean_name"
        /\ c.iteration \in {2, 3, 4} => c.data = "perf_name"
        /\ c.iteration = 4 => c.method = "spatialvb"
        /\ c.iteration \in {0, 1, 2, 3} => c.method = "vb"

C3_Witness ==
    /\ pc = "done"
    /\ fabber_calls[2].cmd.data = "mean_name"
    /\ fabber_calls[3].cmd.data = "perf_name"
    /\ fabber_calls[5].cmd.method = "spatialvb"
    /\ \E v \in Vertices : ftiss[0][v] # ftiss[1][v]

\* C4: for every stage i in 0..4 the estimator is given the "infer arterial
\* component" flag exactly when i is 1, 3 or 4.
C4_InferartStages ==
    \A k \in 1 .. Len(fabber_calls) :
        fabber_calls[k].cmd.inferart <=> fabber_calls[k].cmd.iteration \in {1, 3, 4}

\* C5: after each successful estimator run its mean_ftiss output is
\* thresholded from below at zero, in place, exactly once, and the estimator
\* of stage i+1 is invoked only after the thresholding of stage i has returned
\* status zero.
C5_ThresholdOnceBeforeNextStage ==
    /\ \A k \in 1 .. Len(wb_calls) :
          /\ wb_calls[k].iteration = k - 1
          /\ k <= Len(fabber_calls)
          /\ fabber_calls[k].status = 0
          /\ wb_calls[k].input = [dir |-> fabber_calls[k].cmd.output,
                                  file |-> "mean_ftiss.func.gii"]
          /\ wb_calls[k].output = wb_calls[k].input
          /\ wb_calls[k].status # 0 => k = Len(wb_calls) /\ pc = "failed"
    /\ \A k \in 2 .. Len(fabber_calls) :
          /\ Len(wb_calls) >= k - 1
          /\ wb_calls[k - 1].status = 0
    /\ \A k \in 1 .. Len(wb_calls) :
          wb_calls[k].status = 0 =>
              \A v \in Vertices : ftiss[k - 1][v] >= 0
    /\ \A i \in DOMAIN ftiss_raw :
          (Len(wb_calls) = i + 1 /\ wb_calls[i + 1].status = 0) =>
              \A v \in Vertices :
                  ftiss[i][v] = (IF ftiss_raw[i][v] > 0 THEN ftiss_raw[i][v] ELSE 0)
    /\ pc = "done" => Len(wb_calls) = 5

C5_Witness ==
    /\ pc = "fabber"
    /\ iteration = 2
    /\ Len(wb_calls) = 2
    /\ \E v \in Vertices : ftiss_raw[1][v] < 0 /\ ftiss[1][v] = 0
    /\ \E v \in Vertices : ftiss_raw[1][v] > 0 /\ ftiss[1][v] = ftiss_raw[1][v]

(***************************************************************************)
(* Claims about the ledger, checked under SpecLedger and SpecLedgerSeq.    *)
(***************************************************************************)
\* the ledger stored at a path, as a dictionary
Stored(path) == json_load(files[path])

\* C6: load_json for a directory whose ledger file was never created raises
\* (the process ends up in "error" holding no dictionary), and the call
\* neither creates the file nor changes any stored file.
C6_LoadOfMissingLedgerFails ==
    [][\A p \in Procs :
          (st[p] = "idle" /\ st'[p] # "idle"
              /\ ASL_json(subject_dir'[p]) \notin DOMAIN files)
          => /\ st'[p] = "error"
             /\ json_dict'[p] = EmptyDict
             /\ files' = files]_vars

C6_Witness ==
    \E p \in Procs :
        /\ st[p] = "error"
        /\ ASL_json(subject_dir[p]) \notin DOMAIN files
        /\ \E d \in Dirs : ASL_json(d) \in DOMAIN files

\* C7: after every update_json that returns, the dictionary in memory is the
\* old dictionary with the new entries laid over it, and the file named by
\* its own json_name entry holds exactly that whole dictionary.
C7_PutPersistsFullMergedMapping ==
    [][last_put'.seq # last_put.seq =>
          LET p      == last_put'.proc
              old    == last_put'.old_dict
              new    == last_put'.new_dict
              merged == [k \in DOMAIN old \cup DOMAIN new |->
                            IF k \in DOMAIN new THEN new[k] ELSE old[k]]
          IN /\ json_dict'[p] = merged
             /\ merged["json_name"] \in DOMAIN files'
             /\ json_load(files'[merged["json_name"]]) = merged
             /\ \A f \in DOMAIN files :
                   f # merged["json_name"] => f \in DOMAIN files' /\ files'[f] = files[f]]_vars

\* a put that overwrote one entry and kept the entries it did not name, with
\* the ledger of another subject on disk beside it
C7_Witness ==
    /\ last_put.seq > 0
    /\ \E k \in DOMAIN last_put.new_dict :
          /\ k \in DOMAIN last_put.old_dict
          /\ last_put.old_dict[k] # last_put.new_dict[k]
    /\ \E k \in PutKeys : k \in DOMAIN last_put.old_dict /\ k \notin DOMAIN last_put.new_dict
    /\ st[last_put.proc] = "loaded"
    /\ Stored(json_dict[last_put.proc]["json_name"]) = json_dict[last_put.proc]
    /\ Cardinality(DOMAIN files) = 2

\* C8: when stages run one after the other, a load_json in a fresh process
\* returns every key that was ever put to that ledger, with the value of its
\* most recent put; a later put of a key with another value replaces the
\* earlier value.
C8_PutThenLoadRoundTrip ==
    \A p \in Procs :
        (st[p] = "loaded" /\ put_keys[p] = {}) =>
            LET path == ASL_json(subject_dir[p]) IN
            path \in DOMAIN ever_put =>
                \A k \in DOMAIN ever_put[path] :
                    /\ k \in DOMAIN json_dict[p]
                    /\ json_dict[p][k] = ever_put[path][k]

\* a fresh load that sees the second of two different values put for one key
C8_Witness ==
    \E p \in Procs :
        /\ st[p] = "loaded"
        /\ put_keys[p] = {}
        /\ last_put.seq = 2
        /\ LET path == ASL_json(subject_dir[p]) IN
           /\ path \in DOMAIN ever_put
           /\ \E k \in DOMAIN last_put.new_dict :
                 /\ k \in DOMAIN last_put.old_dict
                 /\ last_put.old_dict[k] # last_put.new_dict[k]
                 /\ ever_put[path][k] = last_put.new_dict[k]
                 /\ json_dict[p][k] = last_put.new_dict[k]

\* C9: when two stages have loaded the same ledger and each puts, the stored
\* ledger is the dictionary the last writer held at its put: a key the other
\* stage put that the last writer's dictionary lacks is absent from it, and a
\* key both hold has the last writer's value.
C9_LastWriterWins ==
    [][last_put'.seq # last_put.seq =>
          LET w    == last_put'.proc
              path == json_dict'[w]["json_name"]
              after == json_load(files'[path])
          IN /\ writer'[path] = w
             /\ after = json_dict'[w]
             /\ \A q \in Procs \ {w} :
                   (st[q] = "loaded" /\ json_dict[q]["json_name"] = path) =>
                      \A k \in put_keys[q] :
                         /\ k \notin DOMAIN json_dict'[w] => k \notin DOMAIN after
                         /\ k \in DOMAIN json_dict'[w] => after[k] = json_dict'[w][k]]_vars

\* both stages have finished; a key that was put to the ledger while the last
\* writer held its dictionary is not in the file
C9_Witness ==
    /\ \A p \in Procs : st[p] = "idle"
    /\ last_put.seq >= 2
    /\ \E path \in DOMAIN files :
          /\ path \in DOMAIN writer
          /\ writer[path] = last_put.proc
          /\ \E k \in DOMAIN ever_put[path] : k \notin DOMAIN Stored(path)

\* C10 (as stated): when stages run one after the other the key set of a
\* stored ledger never shrinks and no put changes the value of a key that was
\* already present.
C10_OnlyAdditive ==
    [][\A path \in DOMAIN files :
          /\ path \in DOMAIN files'
          /\ \A k \in DOMAIN Stored(path) :
                /\ k \in DOMAIN json_load(files'[path])
                /\ json_load(files'[path])[k] = Stored(path)[k]]_vars

\* C10 (amended): when stages run one after the other the key set of a stored
\* ledger never shrinks, and a put changes the value of a key already present
\* only if the key is the stage's own 'oxford_asl' or '<calib>_corr' entry and
\* the stored value was made with the other banding-correction setting.
C10_AdditiveUpToBandingSetting ==
    [][\A path \in DOMAIN files :
          /\ path \in DOMAIN files'
          /\ \A k \in DOMAIN Stored(path) :
                /\ k \in DOMAIN json_load(files'[path])
                /\ json_load(files'[path])[k] # Stored(path)[k] =>
                      /\ last_put'.seq # last_put.seq
                      /\ LET p == last_put'.proc
                             old == Stored(path)
                         IN \/ /\ stage[p].fn = "run_oxford_asl"
                               /\ k = "oxford_asl"
                               /\ old[k] = oxford_dir(old["structasl"], ~stage[p].nobc)
                            \/ /\ stage[p].fn = "correct_M0"
                               /\ \E c \in CalibNumbers :
                                     /\ k = "calib" \o c \o "_corr"
                                     /\ old[k] = calib_corr_name(old["calib" \o c \o "_img"],
                                                                 ~stage[p].nobc)]_vars

\* run_oxford_asl has run twice on one ledger, with and without banding
\* correction, and the second run replaced the 'oxford_asl' entry of the first
C10_Witness ==
    /\ last_put.seq >= 2
    /\ "oxford_asl" \in DOMAIN last_put.old_dict
    /\ "oxford_asl" \in DOMAIN last_put.new_dict
    /\ last_put.new_dict["oxford_asl"] # last_put.old_dict["oxford_asl"]
    /\ Stored(last_put.old_dict["json_name"])["oxford_asl"] = last_put.new_dict["oxford_asl"]
    /\ Stored(last_put.old_dict["json_name"])["structasl"] = last_put.old_dict["structasl"]

(***************************************************************************)
(* Claims about the failure of external tools.                             *)
(***************************************************************************)
\* C11: when an external tool invoked by a stage has returned a non-zero
\* status, the stage is aborted: it has raised (the process is in "error"),
\* so that no later step of it runs and it does not return normally.
C11_ExternalFailureAborts ==
    \A p \in Procs : stage[p].status # 0 => st[p] = "error"

\* C13: an output file that exists was written by a step that completed
\* successfully: every mean_ftiss.func.gii on disk is the output of an
\* estimator run that returned status zero, so a failed or killed run leaves
\* no file that an existence check would take for a computed output.
C13_OutputsOnlyFromCompletedSteps ==
    \A i \in DOMAIN ftiss :
        \E k \in 1 .. Len(fabber_calls) :
            fabber_calls[k].cmd.iteration = i /\ fabber_calls[k].status = 0

(***************************************************************************)
(* Claims about process_subject, checked under SpecPipeline.               *)
(***************************************************************************)
\* a stage call failed: it raised, or a tool it ran exited with a non-zero status
StageFailed(k) == calls[k].result = "raised" \/ calls[k].status # 0

Reads(k) ==
    IF calls[k].fn = "hcp_asl_distcorr"
    THEN distcorr_reads(pl_dir, calls[k].target)
    ELSE IF calls[k].fn = "project_to_surface" /\ "oxford_asl" \in DOMAIN Ledger(pl_dir)
    THEN {pc_name(Ledger(pl_dir)["oxford_asl"])}
    ELSE {}

C14_RecomputeIffMissingOrForced ==
    (gs_last.run > 0 /\ gs_last.guarded) =>
        /\ gs_last.recomputed <=> (~gs_last.existed \/ force_refresh)
        /\ ~gs_last.recomputed => version(gs_last.out) = gs_last.before
        /\ version(gs_last.out) \in {gs_last.before, gs_last.before + 1}

\* a second run has recomputed, and written again, an output the first run
\* had left on disk
C14_Witness ==
    /\ gs_last.run = 2
    /\ gs_last.guarded
    /\ gs_last.existed
    /\ gs_last.recomputed
    /\ force_refresh
    /\ version(gs_last.out) = gs_last.before + 1

\* C15: force_refresh defaults to "skip if exists": a function that is run
\* again (the code has no way to pass an override) does not recompute an
\* output of a guarded step that already exists.
C15_DefaultSkipsExisting ==
    (gs_last.run > 0 /\ gs_last.guarded /\ gs_last.existed) => ~gs_last.recomputed

(***************************************************************************)
(* Claims about the import of the bbregister matrix, checked under         *)
(* SpecAsl2struct.                                                         *)
(***************************************************************************)
ExactBottomRow(arr) == arr[4][1] = 0 /\ arr[4][2] = 0 /\ arr[4][3] = 0 /\ arr[4][4] = One
Distance(x, y) == IF x >= y THEN x - y ELSE y - x

\* C16: when the matrix file fails the bottom-row validation of the import it
\* is rounded to 5 decimals (every entry becomes the nearest multiple of
\* 10^-5) and imported again exactly once; a failure of the second import is
\* fatal, with no further attempt; when the first import succeeds the file
\* is not rounded.
C16_RoundOnceThenFatal ==
    /\ reg_attempts <= 2
    /\ reg_rounded <= 1
    /\ (reg_attempts >= 1 /\ ExactBottomRow(reg_written)) =>
           /\ reg_attempts = 1
           /\ reg_rounded = 0
           /\ reg_pc \in {"restore", "done"}
           /\ reg_pc = "restore" => reg_omat = reg_written
    /\ (reg_attempts >= 1 /\ ~ExactBottomRow(reg_written)) =>
           /\ reg_pc # "except" => (reg_attempts = 2 /\ reg_rounded = 1)
           /\ reg_pc \in {"restore", "failed"} =>
                  /\ \A i \in 1 .. 4 : \A j \in 1 .. 4 :
                         /\ reg_omat[i][j] % Step = 0
                         /\ 2 * Distance(reg_omat[i][j], reg_written[i][j]) <= Step
                  /\ reg_pc = "failed" <=> ~ExactBottomRow(reg_omat)
    /\ reg_pc = "failed" => reg_attempts = 2

\* a matrix that failed the first import and passed the second, after rounding
C16_Witness ==
    /\ reg_pc = "restore"
    /\ reg_attempts = 2
    /\ reg_rounded = 1
    /\ ~ExactBottomRow(reg_written)
    /\ ExactBottomRow(reg_omat)


(***************************************************************************)
(* Claims about apply_to_image on the motion corrected series, checked     *)
(* under SpecResample.                                                     *)
(***************************************************************************)
TestCoords == {0, 1, 4}
Coords == (0 - 40) .. 40

\* where the chain of the call takes the coordinate x for timepoint i: through
\* the two warps, the i-th matrix of mcflirt, back through the matrix of
\* volume 0, and through the registration
Mapped(i, x) ==
    LET z == Apply(rs_in.asl2calib_mc[i], Apply(rs_in.dc_warp, Apply(rs_in.gdc, x)))
        w == CHOOSE w \in Coords : Apply(rs_in.asl2calib_mc[0], w) = z
    IN  Apply(rs_in.asl2struct_reg, w)

\* C18: when the chain holding the motion correction of length N is applied to
\* the N-volume series, output timepoint i is input volume i resampled with
\* the composition of the i-th per-timepoint transform and the elements
\* that do not vary in time, and with no other per-timepoint transform.
C18_TimepointUsesItsOwnTransform ==
    rs_pc = "returned" =>
        /\ DOMAIN rs_out.series = Timepoints
        /\ \A i \in Timepoints :
               /\ rs_out.series[i].vol = i
               /\ \A x \in TestCoords : Apply(rs_out.series[i].by, x) = Mapped(i, x)

\* a returned series of which two volumes moved differently
C18_Witness ==
    /\ rs_pc = "returned"
    /\ \E i \in Timepoints : rs_in.asl2calib_mc[i] # rs_in.asl2calib_mc[0]

\* C19: within one call with more than one worker, whatever the order in
\* which the workers complete, the volume at index i of the output series is
\* the resampled volume of input timepoint i.
C19_OutputInTimeOrder ==
    (rs_pc = "returned" /\ rs_in.cores > 1) =>
        \A i \in Timepoints :
            i \in DOMAIN rs_out.series /\ rs_out.series[i] = rs_result[i]
                                       /\ rs_result[i].vol = i

\* a call with several workers that returned after a later timepoint
\* completed before an earlier one
C19_Witness ==
    /\ rs_pc = "returned"
    /\ rs_in.cores > 1
    /\ \E k \in 1 .. Len(rs_order) : \E l \in 1 .. Len(rs_order) :
           k < l /\ rs_order[k] > rs_order[l]

\* C20: when the resampling of one timepoint fails the whole call fails: no
\* series, partial or complete, is returned or saved, and the failed
\* timepoint is not resampled again.
C20_OneFailureFailsTheCall ==
    /\ rs_failed # {} =>
           /\ rs_pc \in {"resampling", "failed"}
           /\ rs_out = NoSeries
           /\ rs_saved = << >>
    /\ rs_pc = "failed" => rs_failed # {}
    /\ \A i \in rs_failed : i \in DOMAIN rs_task /\ i \notin DOMAIN rs_result

\* a call that failed although other timepoints had been resampled
C20_Witness ==
    /\ rs_pc = "failed"
    /\ rs_failed # {}
    /\ DOMAIN rs_result # {}


took(w) == {i \in Timepoints : [op |-> "take", worker |-> w, timepoint |-> i] \in rs_log}
wrote(w) == {i \in Timepoints : [op |-> "write", worker |-> w, timepoint |-> i] \in rs_log}

\* C21: the timepoints are partitioned among the workers: the sets of
\* timepoints of two workers are disjoint, a worker writes the result of no
\* timepoint but its own, and in a call that returned every timepoint was
\* resampled by exactly one worker.
C21_TimepointsPartitioned ==
    /\ \A w1 \in 1 .. MaxCores : \A w2 \in 1 .. MaxCores :
           w1 # w2 => took(w1) \cap took(w2) = {}
    /\ \A w \in 1 .. MaxCores : wrote(w) \subseteq took(w)
    /\ rs_pc = "returned" =>
           \A i \in Timepoints : Cardinality({w \in 1 .. MaxCores : i \in wrote(w)}) = 1

\* a call that returned after two workers each resampled a timepoint
C21_Witness ==
    /\ rs_pc = "returned"
    /\ \E w1 \in Workers : \E w2 \in Workers :
           w1 # w2 /\ wrote(w1) # {} /\ wrote(w2) # {}


(***************************************************************************)
(* Claims about chains and their inverses, checked under SpecChain.        *)
(***************************************************************************)
\* C22: the inverse of chain(A, B) and chain(inverse of B, inverse of A) take
\* every test coordinate to the same point, and chain(A, B) takes a
\* coordinate where B takes the point that A takes it to.
C22_InverseOfChainReverses ==
    /\ ch_pc # "idle" =>
           \A x \in TestCoords : Apply(ch_AB, x) = Apply(ch_B, Apply(ch_A, x))
    /\ ch_pc = "inverted" =>
           \A x \in TestCoords :
               Apply(ch_inv, x) = Apply(Then(inverse(ch_B), inverse(ch_A)), x)

\* an inverted chain of two transforms that do not commute
C22_Witness ==
    /\ ch_pc = "inverted"
    /\ \E x \in TestCoords : Apply(ch_B, Apply(ch_A, x)) # Apply(ch_A, Apply(ch_B, x))


(***************************************************************************)
(* Claims about the fits of the two sides, checked under SpecSurfaceFit.   *)
(***************************************************************************)
FitDir(k) == fabber_calls[k].cmd.output.parent
FitFailed(dir) ==
    \/ \E k \in 1 .. Len(fabber_calls) : FitDir(k) = dir /\ fabber_calls[k].status # 0
    \/ \E k \in 1 .. Len(wb_calls) :
          wb_calls[k].input.dir.parent = dir /\ wb_calls[k].status # 0

\* C23: one complete 5-stage fit is run per side, L then R, each in its own
\* output directory; the warm start of stage i of a side is the posterior of
\* stage i-1 of the same side; after a fatal failure in the fit of side L
\* the fit of side R is never started.
C23_OneFitPerSideInOrder ==
    /\ \A k \in 1 .. Len(fabber_calls) :
           LET c == fabber_calls[k].cmd IN
           /\ FitDir(k) = (IF k <= 5 THEN "L_basil" ELSE "R_basil")
           /\ c.iteration = (IF k <= 5 THEN k - 1 ELSE k - 6)
           /\ c.iteration = 0 => c.mvn = << >>
           /\ c.iteration > 0 =>
                  /\ Len(c.mvn) = 1
                  /\ c.mvn[1].dir.parent = FitDir(k)
                  /\ c.mvn[1].dir.index = c.iteration - 1
                  /\ c.mvn[1].dir = fabber_calls[k - 1].cmd.output
    /\ Len(fabber_calls) <= 10
    /\ FitFailed("L_basil") =>
           /\ out_dir = "L_basil"
           /\ pc = "failed"
           /\ \A k \in 1 .. Len(fabber_calls) : FitDir(k) # "R_basil"
    /\ (out_dir = "R_basil" /\ pc = "done") =>
           /\ Len(fabber_calls) = 10
           /\ \A k \in 1 .. 10 : fabber_calls[k].status = 0

\* both fits complete: stage 4 of side R warm-started from stage 3 of side R
C23_Witness ==
    /\ out_dir = "R_basil"
    /\ pc = "done"
    /\ Len(fabber_calls) = 10
    /\ fabber_calls[10].cmd.mvn[1].dir.parent = "R_basil"


(***************************************************************************)
(* Claim about the frame of generate_asl2struct, checked under             *)
(* SpecAsl2struct.                                                         *)
(***************************************************************************)
\* C24: on every exit from generate_asl2struct, by return or by exception,
\* and whether or not SUBJECTS_DIR was set before the call, the working
\* directory and SUBJECTS_DIR are what they were before the call (reg_pwd
\* and reg_old_sd hold what they were when the call was entered).
C24_CwdAndEnvRestored ==
    reg_pc \in {"done", "failed"} => (reg_cwd = reg_pwd /\ reg_env = reg_old_sd)


(***************************************************************************)
(* Claim about the keys the stages add to the ledger, checked under        *)
(* SpecStages.                                                             *)
(***************************************************************************)
\* the keys of one calibration image were put after both of its commands
\* returned status 0: the stage is past that image, or at its end without a
\* failed command
CalibKeysAfterSuccess(p, c) ==
    ("calib" \o c \o "_bias") \in put_keys[p] =>
        \/ c = "0" /\ stage[p].calib = "1"
        \/ stage[p].step = "returned" /\ stage[p].status = 0

\* C25: a ledger key that names the artifact of a stage is there only if the
\* external run that makes the artifact returned status 0: 'oxford_asl' only
\* after a successful oxford_asl run, '<calib>_bias' and '<calib>_corr' only
\* after the bias estimation and the dilation of that image succeeded.
C25_KeysOnlyAfterSuccessfulRun ==
    \A p \in Procs :
        /\ (stage[p].fn = "run_oxford_asl" /\ "oxford_asl" \in put_keys[p]) =>
               stage[p].status = 0
        /\ stage[p].fn = "correct_M0" =>
               \A c \in {"0", "1"} : CalibKeysAfterSuccess(p, c)


(***************************************************************************)
(* Claim about the repeat counts of the fit, checked under SpecBasil.      *)
(***************************************************************************)
\* C26: for every stage i in 0..4 the repeat counts rpt1..rpt5 = 6,6,6,10,15
\* are passed to the estimator exactly when the data of the stage is the
\* full repeated series (i >= 2), and never when it is the mean-of-repeats
\* image (i < 2).
C26_RepeatsOnlyWithFullSeries ==
    \A k \in 1 .. Len(fabber_calls) :
        LET c == fabber_calls[k].cmd IN
        /\ c.rpts \in {<< >>, <<6, 6, 6, 10, 15>>}
        /\ c.rpts # << >> <=> c.iteration >= 2
        /\ c.rpts # << >> <=> c.data = "perf_name"
        /\ c.data = "mean_name" => c.rpts = << >>

\* a complete fit: no repeat counts at stage 1, all five at stage 2
C26_Witness ==
    /\ pc = "done"
    /\ fabber_calls[2].cmd.rpts = << >>
    /\ fabber_calls[3].cmd.rpts = <<6, 6, 6, 10, 15>>
    /\ fabber_calls[3].cmd.data = "perf_name"


(***************************************************************************)
(* Claim about the rebased motion correction, checked under SpecResample.  *)
(***************************************************************************)
\* C27: the rebased motion correction chain(M, inverse of M[0]) built from
\* the N matrices M of mcflirt has exactly N per-timepoint transforms; its
\* element i is M[i] followed by the inverse of M[0] (following it with M[0]
\* gives M[i] back), and its element 0 is the identity mapping.
C27_RebasedOnVolume0 ==
    rs_pc # "idle" =>
        LET M == rs_in.asl2calib_mc
            R == asl_mc(rs_in)
        IN  /\ R.varying
            /\ DOMAIN R.ts = DOMAIN M
            /\ \A i \in DOMAIN M : \A x \in TestCoords :
                   Apply(M[0], Apply(R.ts[i], x)) = Apply(M[i], x)
            /\ \A x \in TestCoords : Apply(R.ts[0], x) = x

\* a series of which volume 0 moved, and another volume moved differently
C27_Witness ==
    /\ rs_pc = "returned"
    /\ rs_in.asl2calib_mc[0] # [a |-> 1, b |-> 0]
    /\ \E i \in Timepoints : rs_in.asl2calib_mc[i] # rs_in.asl2calib_mc[0]


(***************************************************************************)
(* Claim about average_tis, checked under SpecAverage.                     *)
(***************************************************************************)
RECURSIVE SumCols(_, _)
SumCols(row, S) ==
    IF S = {} THEN 0
    ELSE LET j == CHOOSE j \in S : TRUE IN row[j] + SumCols(row, S \ {j})

\* C28: with repeat counts r_1..r_n average_tis writes exactly n columns;
\* column k is the mean of the input columns of block k, where block 1
\* starts at column 0, block k has r_k columns and block k+1 starts where
\* block k ends: the blocks are contiguous, disjoint, and cover the first
\* r_1+...+r_n input columns.
C28_MeanOverBlocksOfRepeats ==
    av_pc = "saved" =>
        LET n == Len(av_rpts) IN
        /\ Len(av_slices) = n
        /\ av_slices[1].x = 0
        /\ \A k \in 1 .. n : av_slices[k].y - av_slices[k].x = av_rpts[k]
        /\ \A k \in 1 .. (n - 1) : av_slices[k + 1].x = av_slices[k].y
        /\ \A v \in Vertices :
               /\ DOMAIN av_mean[v] = 1 .. n
               /\ \A k \in 1 .. n :
                      LET block == {j \in DOMAIN av_data[v] :
                                       av_slices[k].x <= j /\ j < av_slices[k].y}
                      IN  /\ Cardinality(block) = av_rpts[k]
                          /\ av_mean[v][k].n = av_rpts[k]
                          /\ av_mean[v][k].sum = SumCols(av_data[v], block)

\* the call surface_analysis makes: five inversion times, 43 columns
C28_Witness ==
    /\ av_pc = "saved"
    /\ av_rpts = REPEATS
    /\ av_slices[5] = [x |-> 28, y |-> 43]


(***************************************************************************)
(* Claim about the directories of run_oxford_asl, checked under            *)
(* SpecStages.                                                             *)
(***************************************************************************)
\* C29: run_oxford_asl derives its result directory and its input
\* directories from the banding-correction setting: with nobc they all carry
\* the extension '_nobc' (TIs_nobc/OxfordASL, PVEs_nobc, reg_nobc,
\* DistCorr_nobc), without it they carry no extension at all; the path put
\* in the ledger under 'oxford_asl' is the result directory.
C29_DirectoriesFollowNobc ==
    \A p \in Procs :
        (stage[p].fn = "run_oxford_asl" /\ stage[p].step = "returned") =>
            LET sd == json_dict[p]["structasl"]
                e == IF stage[p].nobc THEN "_nobc" ELSE ""
            IN  /\ json_dict[p]["oxford_asl"] = sd \o "/TIs" \o e \o "/OxfordASL"
                /\ oxford_input_dirs(sd, stage[p].nobc) =
                       [PVEs |-> sd \o "/PVEs" \o e,
                        reg |-> sd \o "/reg" \o e,
                        DistCorr |-> sd \o "/Calib/Calib0/DistCorr" \o e]


(***************************************************************************)
(* Claim about the names project_to_surface saves under, checked under     *)
(* SpecProject.                                                            *)
(***************************************************************************)
NiiGz == <<".", "n", "i", "i", ".", "g", "z">>
WithoutNiiGz(name) ==
    IF Len(name) >= Len(NiiGz) /\ SubSeq(name, Len(name) - Len(NiiGz) + 1, Len(name)) = NiiGz
    THEN SubSeq(name, 1, Len(name) - Len(NiiGz))
    ELSE name

\* C30: for every (volume, side) pair project_to_surface writes an output
\* named '<side>_<stem>.func.gii', where <stem> is the file name of the
\* volume with its extension '.nii.gz' removed and nothing else removed; the
\* four pairs give four distinct names.
C30_SavenameKeepsTheStem ==
    /\ \A k \in 1 .. Len(ps_runs) :
           ps_runs[k].savename.name =
               <<ps_runs[k].side, "_">> \o WithoutNiiGz(ps_runs[k].name)
                                        \o <<".", "f", "u", "n", "c", ".", "g", "i", "i">>
    /\ \A k \in 1 .. Len(ps_runs) : \A l \in 1 .. Len(ps_runs) :
           k # l => ps_runs[k].savename # ps_runs[l].savename
    /\ ps_pc = "returned" => Len(ps_runs) = 4

====
